---------------------------- MODULE Spec2Model ----------------------------
(***************************************************************************)
(* Model of the clinic backend's record store (DatabaseService) and of the *)
(* authentication service layered over it (AuthService).                   *)
(*                                                                         *)
(* Spec      the store under two concurrent callers: every call is split   *)
(*           at its real suspension points (readFile, writeFile).          *)
(* SpecAuth  the user/credential/login operations, one call at a time.     *)
(* SpecScenario  the same calls on a store without users.                  *)
(* SpecSesion  tokens and the session cache while the clock advances.      *)
(* SpecEntidades  the entity-specific creators and the composed reads, one  *)
(*           call at a time.                                               *)
(* SpecAutorizacion  the authorization middlewares while users and roles   *)
(*           change.                                                       *)
(* SpecHttp  the auth endpoints: token extraction and response statuses.   *)
(* SpecBaja  logins, guards and removals of users, roles and profiles.     *)
(* SpecBootstrap  the start-up provisioning of the default administrator.  *)
(***************************************************************************)
EXTENDS Integers, Sequences, FiniteSets, TLC

VARIABLES
    data,             \* DatabaseService.data: the in-memory document, NoData while null
    disk,             \* content of db.json: a document, or Corrupt
    disk0,            \* content of db.json when the process started (never changes)
    call,             \* per caller: the store call in progress and its position
    ncalls,           \* number of calls started so far
    deleted,          \* per table: ids removed by delete so far (history)
    sesionesActivas,  \* AuthService.sesionesActivas: token -> session entry
    last,             \* the last completed service call of SpecAuth and its outcome
    nops,             \* number of SpecAuth calls so far
    now,              \* the clock (Date.now()), in hours
    cerradas          \* tokens for which cerrarSesion has returned true (history)

vars == <<data, disk, disk0, call, ncalls, deleted, sesionesActivas, last, nops, now, cerradas>>

storeVars == <<data, disk, disk0, call, ncalls, deleted>>
authVars == <<sesionesActivas, last, nops, now, cerradas>>

----------------------------------------------------------------------------
(* Bounds *)

\* Calls the two callers may start, in total, in one behaviour of Spec.
MaxCalls == 2

\* Service calls in one behaviour of SpecAuth.
MaxOps == 2

\* Logins in one behaviour of SpecSesion.
MaxLogins == 1

----------------------------------------------------------------------------
(* JavaScript values *)

\* The seven collections of db.json.
AllTables == {"roles", "usuarios", "perfiles", "empleados", "pacientes", "tareas", "insumos"}

\* this.data === null
NoData == [k \in {} |-> << >>]

\* A file JSON.parse rejects (bytes of two overlapping writeFile calls, or a
\* file read while it is being rewritten).
Corrupt == [corrupt |-> TRUE]

\* undefined, where a record is expected
NoRec == [k \in {} |-> 0]

\* parseInt's NaN: equal to no stored id
NaN == -1

Max(S) == CHOOSE x \in S : \A y \in S : y <= x

Min(S) == CHOOSE x \in S : \A y \in S : x <= y

\* { ...a, ...b }: the keys of both, b's value where both have the key
Merge(a, b) == [k \in DOMAIN a \cup DOMAIN b |-> IF k \in DOMAIN b THEN b[k] ELSE a[k]]

Num(n) == [t |-> "number", n |-> n]

Str(s) == [t |-> "string", s |-> s]

Digits == <<"0", "1", "2", "3", "4", "5", "6", "7", "8", "9">>

IsDigit(c) == \E d \in 1..10 : Digits[d] = c

DigitValue(c) == (CHOOSE d \in 1..10 : Digits[d] = c) - 1

\* Length of the longest prefix of s made of decimal digits.
LeadingDigits(s) ==
    IF \A i \in 1..Len(s) : IsDigit(SubSeq(s, i, i))
    THEN Len(s)
    ELSE Min({i \in 1..Len(s) : ~IsDigit(SubSeq(s, i, i))}) - 1

RECURSIVE DecimalValue(_, _)
DecimalValue(s, k) ==
    IF k = 0 THEN 0
    ELSE 10 * DecimalValue(s, k - 1) + DigitValue(SubSeq(s, k, k))

\* parseInt(v) for an integer number or a string without sign or blanks: the
\* value of the leading decimal digits, NaN when there are none.
ParseInt(v) ==
    IF v.t = "number" THEN v.n
    ELSE IF LeadingDigits(v.s) = 0 THEN NaN
    ELSE DecimalValue(v.s, LeadingDigits(v.s))

\* !r[k] for a string field: undefined or ""
FalsyStr(r, k) == k \notin DOMAIN r \/ r[k] = ""

\* !r[k] for a numeric field: undefined or 0
FalsyNum(r, k) == k \notin DOMAIN r \/ r[k] = 0

----------------------------------------------------------------------------
(* DatabaseService: the synchronous part of each generic operation *)

Ok(rec) == [status |-> "ok", rec |-> rec]

Err(kind) == [status |-> kind, rec |-> NoRec]

Ids(rows) == {rows[i].id : i \in 1..Len(rows)}

\* database.service.js 75-77
MaxId(rows) == IF Len(rows) > 0 THEN Max(Ids(rows)) ELSE 0

\* database.service.js 79-82: { id: maxId + 1, ...newRecord }
RecordWithId(rows, newRecord) == Merge([id |-> MaxId(rows) + 1], newRecord)

\* Array.prototype.findIndex(item => item.id === n), 1-based; 0 for -1
FindIndex(rows, n) ==
    IF \E i \in 1..Len(rows) : rows[i].id = n
    THEN Min({i \in 1..Len(rows) : rows[i].id = n})
    ELSE 0

\* update without the re-pinned id: { ...old, ...updatedData }
UpdatedRecordUnpinned(old, updatedData, id) == Merge(old, updatedData)

\* database.service.js 102-106: { ...old, ...updatedData, id: parseInt(id) }
UpdatedRecord(old, updatedData, id) == Merge(Merge(old, updatedData), [id |-> ParseInt(id)])

\* rows.splice(i, 1)
Splice(rows, i) == SubSeq(rows, 1, i - 1) \o SubSeq(rows, i + 1, Len(rows))

\* getById on a loaded document
GetById(doc, tableName, id) ==
    IF tableName \notin DOMAIN doc THEN Err("TableNotFound")
    ELSE IF FindIndex(doc[tableName], ParseInt(id)) = 0 THEN Err("RecordNotFound")
    ELSE Ok(doc[tableName][FindIndex(doc[tableName], ParseInt(id))])

\* createTarea's required fields
TareaInvalid(t) ==
    FalsyStr(t, "descripcion") \/ FalsyNum(t, "empleadoId") \/ FalsyStr(t, "estado") \/ FalsyStr(t, "fecha")

----------------------------------------------------------------------------
(* Spec: the store under two concurrent callers *)

\* The two callers whose calls may overlap.
Procs == {"A", "B"}

EmptyDoc == [t \in AllTables |-> << >>]

Tarea(id, descripcion, estado) ==
    [id |-> id, descripcion |-> descripcion, empleadoId |-> 1, estado |-> estado, fecha |-> "2024-01-01"]

SeededDoc ==
    [EmptyDoc EXCEPT !["tareas"] = <<Tarea(1, "control", "pendiente"), Tarea(2, "vacunar", "completada")>>,
                     !["insumos"] = <<[id |-> 1, nombre |-> "gasas", stock |-> 40, unidad |-> "caja"]>>]

\* db.json as the process may find it at start.
InitialDocs == {EmptyDoc, SeededDoc}

\* tableName arguments: a collection and a name db.json does not have
TableArgs == {"tareas", "sesiones"}

\* newRecord arguments of create and createTarea; some carry an id key
NewRecords ==
    { [descripcion |-> "curar", empleadoId |-> 1, estado |-> "pendiente", fecha |-> "2024-02-02"],
      [id |-> 1, descripcion |-> "medir", empleadoId |-> 1, estado |-> "pendiente", fecha |-> "2024-02-02"],
      [id |-> 3, descripcion |-> "pesar", empleadoId |-> 1, estado |-> "pendiente", fecha |-> "2024-02-02"] }

\* a tareaData createTarea rejects
InvalidTarea == [descripcion |-> "", empleadoId |-> 1, estado |-> "pendiente", fecha |-> "2024-02-02"]

\* updatedData arguments of update; one carries another id
UpdateArgs == { [estado |-> "completada"], [id |-> 2, estado |-> "cancelada"] }

\* id arguments: numbers, and strings as a route parameter delivers them
IdArgs == { Num(1), Str("2"), Str("x") }

\* tableName and id arguments of getById: a stored task, an id no task has,
\* and a collection the document lacks
GetByIdArgs ==
    { [table |-> "tareas", id |-> Num(1)],
      [table |-> "tareas", id |-> Str("x")],
      [table |-> "sesiones", id |-> Num(1)] }

Idle ==
    [pc |-> "idle", op |-> "none", table |-> "", id |-> Num(0), fields |-> NoRec,
     content |-> NoData, snap |-> NoData, idx |-> 0, ret |-> Err("none"), raced |-> FALSE]

\* database.service.js 37-41: a call entering ensureDataLoaded issues readFile
\* when this.data is null and otherwise goes on with the resident document.
Entered(op, tableName, id, fields) ==
    [Idle EXCEPT !.pc = IF data = NoData THEN "reading" ELSE "ready",
                 !.op = op, !.table = tableName, !.id = id, !.fields = fields]

\* The call has settled: only its arguments and its outcome remain.
Returned(c, ret) ==
    [Idle EXCEPT !.pc = "done", !.op = c.op, !.table = c.table, !.id = c.id, !.fields = c.fields,
                 !.ret = ret]

CanStart(p) == call[p].pc \in {"idle", "done"} /\ ncalls < MaxCalls

Writing(q) == call[q].pc = "writing"

Started(p, c) ==
    /\ call' = [call EXCEPT ![p] = c]
    /\ ncalls' = ncalls + 1
    /\ UNCHANGED <<data, disk, disk0, deleted>>
    /\ UNCHANGED authVars

\* create(tableName, newRecord), up to its first await
InvokeCreate(p) ==
    /\ CanStart(p)
    /\ \E t \in TableArgs, f \in NewRecords :
          \* one newRecord is enough for the table the document lacks
          /\ t \in AllTables \/ "id" \notin DOMAIN f
          /\ Started(p, Entered("create", t, Num(0), f))

\* createTarea(tareaData): validation, then create('tareas', tareaData)
InvokeCreateTarea(p) ==
    /\ CanStart(p)
    /\ \E f \in {r \in NewRecords : "id" \in DOMAIN r /\ r.id = 1} \cup {InvalidTarea} :
          IF TareaInvalid(f)
          THEN Started(p, Returned([Idle EXCEPT !.op = "createTarea", !.table = "tareas", !.fields = f],
                                   Err("Validation")))
          ELSE Started(p, Entered("createTarea", "tareas", Num(0), f))

\* update(tableName, id, updatedData), up to its first await
InvokeUpdate(p) ==
    /\ CanStart(p)
    /\ \/ \E id \in IdArgs, f \in UpdateArgs : Started(p, Entered("update", "tareas", id, f))
       \/ Started(p, Entered("update", "sesiones", Num(1), [estado |-> "completada"]))

\* delete(tableName, id), up to its first await
InvokeDelete(p) ==
    /\ CanStart(p)
    /\ \/ \E id \in IdArgs : Started(p, Entered("delete", "tareas", id, NoRec))
       \/ Started(p, Entered("delete", "sesiones", Num(1), NoRec))

\* getById(tableName, id), up to its first await
InvokeGetById(p) ==
    /\ CanStart(p)
    /\ \E a \in GetByIdArgs : Started(p, Entered("getById", a.table, a.id, NoRec))

\* loadData, fs.readFile: the bytes read are those of the file at some moment
\* of the read; a file another call is rewriting may be read half-written.
ReadFile(p) ==
    /\ call[p].pc = "reading"
    /\ \E content \in {disk} \cup (IF \E q \in Procs : Writing(q) THEN {Corrupt} ELSE {}) :
          call' = [call EXCEPT ![p].pc = "read", ![p].content = content]
    /\ UNCHANGED <<data, disk, disk0, ncalls, deleted>>
    /\ UNCHANGED authVars

\* loadData 21-23: JSON.parse throws, the call is rejected, this.data is as before
LoadFailed(p) ==
    /\ call[p].pc = "read"
    /\ call[p].content = Corrupt
    /\ call' = [call EXCEPT ![p] = Returned(@, Err("LoadError"))]
    /\ UNCHANGED <<data, disk, disk0, ncalls, deleted>>
    /\ UNCHANGED authVars

\* The continuation after "await this.ensureDataLoaded()" runs without
\* suspension up to the call of fs.writeFile.
CanResume(p) ==
    \/ call[p].pc = "ready"
    \/ call[p].pc = "read" /\ call[p].content # Corrupt

\* loadData 19: this.data = JSON.parse(rawData), for a call that came through readFile
Resident(p) == IF call[p].pc = "read" THEN call[p].content ELSE data

\* saveData 29: JSON.stringify(this.data) is taken when writeFile is called;
\* two writeFile calls in flight on one path race.
Saving(p, doc, ret, idx) ==
    [q \in Procs |->
        IF q = p
        THEN [call[p] EXCEPT !.pc = "writing", !.snap = doc, !.ret = ret, !.idx = idx,
                             !.raced = \E r \in Procs \ {p} : Writing(r)]
        ELSE IF Writing(q) THEN [call[q] EXCEPT !.raced = TRUE] ELSE call[q]]

\* The checks that reject a call after the load: unknown table, absent id.
Rejected(p) ==
    /\ CanResume(p)
    /\ \/ call[p].table \notin DOMAIN Resident(p)
       \/ /\ call[p].table \in DOMAIN Resident(p)
          /\ call[p].op \in {"getById", "update", "delete"}
          /\ FindIndex(Resident(p)[call[p].table], ParseInt(call[p].id)) = 0
    /\ data' = Resident(p)
    /\ call' = [call EXCEPT ![p] =
                  Returned(@, IF call[p].table \notin DOMAIN Resident(p)
                              THEN Err("TableNotFound") ELSE Err("RecordNotFound"))]
    /\ UNCHANGED <<disk, disk0, ncalls, deleted>>
    /\ UNCHANGED authVars

\* getById 60-64: the record whose id is parseInt(id)
ReturnRecord(p) ==
    /\ CanResume(p)
    /\ call[p].op = "getById"
    /\ call[p].table \in DOMAIN Resident(p)
    /\ LET t == call[p].table
           index == FindIndex(Resident(p)[t], ParseInt(call[p].id))
       IN  /\ index # 0
           /\ call' = [call EXCEPT ![p] = Returned(@, Ok(Resident(p)[t][index]))]
    /\ data' = Resident(p)
    /\ UNCHANGED <<disk, disk0, ncalls, deleted>>
    /\ UNCHANGED authVars

\* create 74-85: next id, push, saveData
ApplyCreate(p) ==
    /\ CanResume(p)
    /\ call[p].op \in {"create", "createTarea"}
    /\ call[p].table \in DOMAIN Resident(p)
    /\ LET t == call[p].table
           recordWithId == RecordWithId(Resident(p)[t], call[p].fields)
           doc == [Resident(p) EXCEPT ![t] = Append(@, recordWithId)]
       IN  /\ data' = doc
           /\ call' = Saving(p, doc, Ok(recordWithId), Len(doc[t]))
    /\ UNCHANGED <<disk, disk0, ncalls, deleted>>
    /\ UNCHANGED authVars

\* update 96-108: find, merge with the id re-pinned, saveData
ApplyUpdate(p) ==
    /\ CanResume(p)
    /\ call[p].op = "update"
    /\ call[p].table \in DOMAIN Resident(p)
    /\ LET t == call[p].table
           index == FindIndex(Resident(p)[t], ParseInt(call[p].id))
       IN  /\ index # 0
           /\ LET doc == [Resident(p) EXCEPT ![t][index] = UpdatedRecord(@, call[p].fields, call[p].id)]
              IN  /\ data' = doc
                  /\ call' = Saving(p, doc, Ok(doc[t][index]), index)
    /\ UNCHANGED <<disk, disk0, ncalls, deleted>>
    /\ UNCHANGED authVars

\* delete 119-125: find, splice, saveData
ApplyDelete(p) ==
    /\ CanResume(p)
    /\ call[p].op = "delete"
    /\ call[p].table \in DOMAIN Resident(p)
    /\ LET t == call[p].table
           index == FindIndex(Resident(p)[t], ParseInt(call[p].id))
       IN  /\ index # 0
           /\ LET doc == [Resident(p) EXCEPT ![t] = Splice(@, index)]
              IN  /\ data' = doc
                  /\ call' = Saving(p, doc, Ok(Resident(p)[t][index]), index)
                  /\ deleted' = [deleted EXCEPT ![t] = @ \cup {ParseInt(call[p].id)}]
    /\ UNCHANGED <<disk, disk0, ncalls>>
    /\ UNCHANGED authVars

\* What the call returns once saveData has resolved: update returns
\* this.data[tableName][index] as it is then (109); create and delete return
\* the record they hold (86, 126).
ReturnValue(p) ==
    IF call[p].op = "update"
    THEN IF call[p].idx <= Len(data[call[p].table])
         THEN Ok(data[call[p].table][call[p].idx])
         ELSE Ok(NoRec)
    ELSE call[p].ret

\* A saveData that would add the serialised records to those of the file
\* instead of replacing the file.
WrittenMerged(p) ==
    [t \in AllTables |->
        disk[t] \o SelectSeq(call[p].snap[t], LAMBDA r : \A i \in 1..Len(disk[t]) : disk[t][i] # r)]

\* saveData 29: writeFile replaces the file by the whole serialised document.
Written(p) == call[p].snap

\* fs.writeFile resolves: the file holds the text this call serialised, or,
\* when another writeFile overlapped it, possibly a mix of both texts.
WriteDone(p) ==
    /\ Writing(p)
    /\ \E content \in {Written(p)} \cup (IF call[p].raced THEN {Corrupt} ELSE {}) :
          disk' = content
    /\ call' = [call EXCEPT ![p] = Returned(@, ReturnValue(p))]
    /\ UNCHANGED <<data, disk0, ncalls, deleted>>
    /\ UNCHANGED authVars

\* saveData 30-32: fs.writeFile rejects (the path cannot be written); the
\* file is as it was, saveData throws and the call is rejected. Nothing
\* undoes the push, merge or splice already made on this.data.
WriteFailed(p) ==
    /\ Writing(p)
    /\ call' = [call EXCEPT ![p] = Returned(@, Err("StorageError"))]
    /\ UNCHANGED <<data, disk, disk0, ncalls, deleted>>
    /\ UNCHANGED authVars

Init ==
    /\ data = NoData
    /\ disk0 \in InitialDocs
    /\ disk = disk0
    /\ call = [p \in Procs |-> Idle]
    /\ ncalls = 0
    /\ deleted = [t \in AllTables |-> {}]
    /\ sesionesActivas = << >>
    /\ last = NoRec
    /\ nops = 0
    /\ now = 0
    /\ cerradas = {}

Next ==
    \E p \in Procs :
        \/ InvokeCreate(p)
        \/ InvokeCreateTarea(p)
        \/ InvokeUpdate(p)
        \/ InvokeDelete(p)
        \/ InvokeGetById(p)
        \/ ReadFile(p)
        \/ LoadFailed(p)
        \/ Rejected(p)
        \/ ReturnRecord(p)
        \/ ApplyCreate(p)
        \/ ApplyUpdate(p)
        \/ ApplyDelete(p)
        \/ WriteDone(p)
        \/ WriteFailed(p)

Spec == Init /\ [][Next]_vars

----------------------------------------------------------------------------
(* Claims about the generic store operations, under Spec *)

Quiet(p) == \A q \in Procs \ {p} : call[q].pc \in {"idle", "done"}

\* The step in which caller p's create assigns the id and pushes the record.
CreateApplied(p) ==
    /\ CanResume(p)
    /\ call[p].op \in {"create", "createTarea"}
    /\ call'[p].pc = "writing"

UpdateApplied(p) == CanResume(p) /\ call[p].op = "update" /\ call'[p].pc = "writing"

DeleteApplied(p) == CanResume(p) /\ call[p].op = "delete" /\ call'[p].pc = "writing"

\* C1: create(collection, fields) assigns id = max(existing ids) + 1 (1 for an
\* empty collection) and a following getById(collection, that id) returns a
\* record with that id whose other fields equal the input, also when the
\* input carries an id key.
C1_CreateThenGetById ==
    [][\A p \in Procs :
          CreateApplied(p) /\ Quiet(p) =>
              LET t == call[p].table
                  nextId == MaxId(Resident(p)[t]) + 1
                  got == GetById(data', t, Num(nextId))
              IN  /\ call'[p].ret.rec.id = nextId
                  /\ got.status = "ok"
                  /\ got.rec.id = nextId
                  /\ DOMAIN got.rec = DOMAIN call[p].fields \cup {"id"}
                  /\ \A k \in DOMAIN call[p].fields \ {"id"} : got.rec[k] = call[p].fields[k]]_vars

\* C2: in every reachable state no two records of one collection of the
\* in-memory document have the same id.
C2_UniqueIds ==
    data # NoData =>
        \A t \in AllTables : \A i, j \in 1..Len(data[t]) : i # j => data[t][i].id # data[t][j].id

\* C3: an id that delete removed from a collection is never assigned again by
\* a later create on that collection (stated for creates whose input has no
\* id key, issued while no other call is in progress).
C3_DeletedIdNeverReused ==
    [][\A p \in Procs :
          CreateApplied(p) /\ Quiet(p) /\ "id" \notin DOMAIN call[p].fields =>
              call'[p].ret.rec.id \notin deleted[call[p].table]]_vars

\* C4: two concurrent create calls on the same initially-empty collection are
\* never both assigned the same id.
C4_ConcurrentCreatesDistinctIds ==
    ( /\ ncalls = 2
      /\ disk0["tareas"] = << >>
      /\ \A p \in Procs :
            /\ call[p].pc = "done"
            /\ call[p].op = "create"
            /\ call[p].table = "tareas"
            /\ "id" \notin DOMAIN call[p].fields
            /\ call[p].ret.status = "ok" )
    => call["A"].ret.rec.id # call["B"].ret.rec.id

\* C5: persistence is last-write-wins on the whole document: whenever the
\* file changes, it becomes exactly the document one finishing call
\* serialised (or the mix of two overlapping writes), never a merge with what
\* the file held; hence two mutations that both return can leave a file
\* lacking one of them (C5_LostWrite is such a state).
C5_WholeDocumentLastWriteWins ==
    [][disk' # disk =>
          \E p \in Procs :
              /\ Writing(p)
              /\ call'[p].pc = "done"
              /\ disk' \in {call[p].snap, Corrupt}]_vars

\* Two creates have both returned their record, nothing is in flight, and the
\* file lacks the record one of them returned.
C5_LostWrite ==
    /\ ncalls = 2
    /\ disk # Corrupt
    /\ \A p \in Procs :
          /\ call[p].pc = "done"
          /\ call[p].op = "create"
          /\ call[p].ret.status = "ok"
    /\ \E p \in Procs :
          \A i \in 1..Len(disk[call[p].table]) : disk[call[p].table][i] # call[p].ret.rec

\* C6: update(collection, id, partialFields) never changes the id of the
\* stored record: the record found under id afterwards has id = parseInt(id),
\* and the ids of the collection are the same, in the same order, as before.
C6_UpdateKeepsId ==
    [][\A p \in Procs :
          UpdateApplied(p) =>
              LET t == call[p].table
                  before == Resident(p)[t]
                  found == GetById(data', t, call[p].id)
              IN  /\ found.status = "ok"
                  /\ found.rec.id = ParseInt(call[p].id)
                  /\ data'[t][FindIndex(before, ParseInt(call[p].id))].id = ParseInt(call[p].id)
                  /\ Len(data'[t]) = Len(before)
                  /\ \A i \in 1..Len(before) : data'[t][i].id = before[i].id]_vars

\* An update whose partialFields carry another id has been applied.
C6_UpdateWithOtherId ==
    \E p \in Procs :
        /\ Writing(p)
        /\ call[p].op = "update"
        /\ "id" \in DOMAIN call[p].fields
        /\ call[p].fields.id # ParseInt(call[p].id)
        /\ call[p].ret.rec.estado = call[p].fields.estado

\* C7: after a successful delete(collection, id), getById(collection, id)
\* fails with not-found, the returned value is the record that was stored
\* under id, and every other record of every collection is unchanged.
C7_DeleteThenGetById ==
    [][\A p \in Procs :
          DeleteApplied(p) /\ Quiet(p) =>
              LET t == call[p].table
                  before == Resident(p)
                  index == FindIndex(before[t], ParseInt(call[p].id))
              IN  /\ GetById(data', t, call[p].id).status = "RecordNotFound"
                  /\ call'[p].ret = Ok(before[t][index])
                  /\ data'[t] = Splice(before[t], index)
                  /\ \A u \in AllTables \ {t} : data'[u] = before[u]]_vars

\* The record caller p's call is about is not to be found in the document
\* the call works on: the collection is unknown or no record has the id.
Absent(p) ==
    IF call[p].table \notin DOMAIN Resident(p) THEN TRUE
    ELSE FindIndex(Resident(p)[call[p].table], ParseInt(call[p].id)) = 0

\* C28: getById, update and delete called with an unknown collection name or
\* with an id no record of the collection has fail with a not-found error and
\* leave the in-memory document and db.json as they were.
C28_NotFoundLeavesStore ==
    [][\A p \in Procs :
          (/\ CanResume(p)
           /\ call'[p] # call[p]
           /\ call[p].op \in {"getById", "update", "delete"}
           /\ Absent(p)) =>
              /\ call'[p].pc = "done"
              /\ call'[p].ret.status \in {"TableNotFound", "RecordNotFound"}
              /\ disk' = disk
              /\ data # NoData => data' = data]_vars

\* C38: when persisting fails during create or delete the call fails with a
\* storage error and the in-memory document is as before the call: the record
\* a failed create pushed is not in memory, the record a failed delete
\* removed still is.
C38_FailedSaveRolledBack ==
    [][\A p \in Procs :
          (Writing(p) /\ Quiet(p) /\ call'[p].ret.status = "StorageError") =>
              /\ call'[p].pc = "done"
              /\ LET rows == data'[call[p].table]
                     held == \E i \in 1..Len(rows) : rows[i] = call[p].ret.rec
                 IN  /\ call[p].op \in {"create", "createTarea"} => ~held
                     /\ call[p].op = "delete" => held]_vars

Mutating == {"create", "createTarea", "update", "delete"}

InProgress(q) == call[q].pc \notin {"idle", "done"} /\ call[q].op \in Mutating

\* C29: whenever a create, update or delete has returned successfully and no
\* mutating call is in progress, db.json holds the in-memory document.
C29_PersistedEqualsMemory ==
    (/\ \E p \in Procs : call[p].pc = "done" /\ call[p].op \in Mutating /\ call[p].ret.status = "ok"
     /\ \A q \in Procs : ~InProgress(q)) =>
        disk = data

\* Caller p's loadData assigns this.data in this step
LoadAssigns(p) == call[p].pc = "read" /\ call[p].content # Corrupt /\ call'[p].pc # "read"

\* Some call has pushed, merged or spliced a record of the in-memory document
Modified ==
    \E q \in Procs :
        \/ Writing(q)
        \/ call[q].pc = "done" /\ call[q].op \in Mutating /\ call[q].ret.status = "ok"

\* C30: db.json is read at most once: once a load has completed no call reads
\* the file, and no load replaces the in-memory document after a call has
\* started modifying it.
C30_LoadedOnce ==
    [][\A p \in Procs :
          /\ (call[p].pc = "reading" /\ call'[p].pc = "read") => data = NoData
          /\ LoadAssigns(p) => ~Modified]_vars

----------------------------------------------------------------------------
(* bcrypt, as DatabaseService and AuthService use it *)

\* Salts bcrypt.hash may draw (two characters stand for the 22 of a real salt).
Salts == {"s1", "s2"}

\* "$2b$" and the cost, saltRounds = 10
BcryptPrefix == "$2b$10$"

\* The digest of a secret under a salt: a different text for every pair.
BcryptDigest(salt, password) == "H(" \o salt \o "," \o password \o ")"

\* bcrypt.hash(password, saltRounds) with the salt it drew
BcryptHash(password, salt) == BcryptPrefix \o salt \o BcryptDigest(salt, password)

\* Whether a stored text has the shape of a bcrypt hash.
IsBcryptHash(h) == Len(h) > Len(BcryptPrefix) + 2 /\ SubSeq(h, 1, Len(BcryptPrefix)) = BcryptPrefix

\* bcrypt.compare(password, h): hash the candidate under the salt embedded in
\* h and compare; false when h is no bcrypt hash.
BcryptCompare(password, h) ==
    /\ IsBcryptHash(h)
    /\ h = BcryptHash(password, SubSeq(h, Len(BcryptPrefix) + 1, Len(BcryptPrefix) + 2))

----------------------------------------------------------------------------
(* DatabaseService: users and the composed read *)

\* ensureDataLoaded when calls do not overlap: the resident document, read
\* from db.json on first use.
Loaded == IF data = NoData THEN disk ELSE data

\* createUsuario 176: the required fields
UsuarioInvalid(userData) ==
    \/ FalsyStr(userData, "usuario")
    \/ FalsyStr(userData, "password")
    \/ FalsyNum(userData, "rolId")
    \/ FalsyNum(userData, "perfilId")

\* createUsuario that hands the secret to create as it came
UsuarioDataPlain(userData, salt) ==
    [usuario |-> userData.usuario, password |-> userData.password,
     rolId |-> userData.rolId, perfilId |-> userData.perfilId]

\* createUsuario 184-194: the record handed to create
UsuarioData(userData, salt) ==
    Merge([usuario |-> userData.usuario, password |-> BcryptHash(userData.password, salt),
           rolId |-> userData.rolId, perfilId |-> userData.perfilId],
          IF FalsyNum(userData, "tipoPerfilId") THEN NoRec ELSE [tipoPerfilId |-> userData.tipoPerfilId])

\* updateUsuario 201-204: the password is hashed if (userData.password)
HashedUpdate(userData, salt) ==
    IF ~FalsyStr(userData, "password")
    THEN [userData EXCEPT !.password = BcryptHash(userData.password, salt)]
    ELSE userData

\* getUsuarioByUsername 167: Array.prototype.find, 0 for undefined
FindUsuario(doc, usuario) ==
    IF \E i \in 1..Len(doc.usuarios) : doc.usuarios[i].usuario = usuario
    THEN Min({i \in 1..Len(doc.usuarios) : doc.usuarios[i].usuario = usuario})
    ELSE 0

\* getById with a foreign key read from a record (undefined when absent)
GetByKey(doc, tableName, rec, key) ==
    IF key \in DOMAIN rec THEN GetById(doc, tableName, Num(rec[key])) ELSE Err("RecordNotFound")

\* The details when a lookup that fails is taken for a profile without details
DetallesPerfilOptional(doc, perfil) == Ok(NoRec)

\* getUsuarioCompleto 378-383: the employee or patient the profile names
DetallesPerfil(doc, perfil) ==
    IF perfil.tipo = "empleado" /\ ~FalsyNum(perfil, "empleadoId")
    THEN GetByKey(doc, "empleados", perfil, "empleadoId")
    ELSE IF perfil.tipo = "paciente" /\ ~FalsyNum(perfil, "pacienteId")
    THEN GetByKey(doc, "pacientes", perfil, "pacienteId")
    ELSE Ok(NoRec)

\* getUsuarioCompleto 373-393: user, role, profile and the profile's details;
\* the first lookup that throws rejects the call.
UsuarioCompleto(doc, id) ==
    LET usuario == GetById(doc, "usuarios", id) IN
    IF usuario.status # "ok" THEN usuario ELSE
    LET rol == GetByKey(doc, "roles", usuario.rec, "rolId") IN
    IF rol.status # "ok" THEN rol ELSE
    LET perfil == GetByKey(doc, "perfiles", usuario.rec, "perfilId") IN
    IF perfil.status # "ok" THEN perfil ELSE
    LET detalles == DetallesPerfil(doc, perfil.rec) IN
    IF detalles.status # "ok" THEN detalles ELSE
    Ok(Merge(usuario.rec,
             [rol |-> rol.rec,
              perfil |-> Merge(perfil.rec,
                               IF detalles.rec = NoRec THEN NoRec
                               ELSE IF perfil.rec.tipo = "empleado" THEN [empleado |-> detalles.rec]
                               ELSE [paciente |-> detalles.rec])]))

----------------------------------------------------------------------------
(* AuthService *)

\* auth.service.js 15: the signing secret
JwtSecret == "tu-clave-secreta-super-segura-cambiala-en-produccion"

\* auth.service.js 16: '24h'
JwtExpiresIn == 24

\* usuario.rol?.nombre
RolNombre(usuario) ==
    IF "rol" \in DOMAIN usuario /\ "nombre" \in DOMAIN usuario.rol THEN usuario.rol.nombre ELSE "undefined"

\* usuario.rol?.permisos || []
RolPermisos(usuario) ==
    IF "rol" \in DOMAIN usuario /\ "permisos" \in DOMAIN usuario.rol THEN usuario.rol.permisos ELSE << >>

\* esAdministrador that only asks for a role
EsAdministradorAnyRole(usuario) == "rol" \in DOMAIN usuario

\* esAdministrador 104-106
EsAdministrador(usuario) == "rol" \in DOMAIN usuario /\ RolNombre(usuario) = "admin"

\* null
Null == [null |-> TRUE]

\* crearSesion 130-136 without the permission list
PayloadWithoutPermisos(usuario, t) ==
    Merge([id |-> usuario.id, usuario |-> usuario.usuario, permisos |-> << >>, iat |-> t],
          IF RolNombre(usuario) = "undefined" THEN NoRec ELSE [rol |-> RolNombre(usuario)])

\* crearSesion 130-136: the payload at time t, as JSON.stringify keeps it (a
\* key whose value is undefined is dropped)
Payload(usuario, t) ==
    Merge([id |-> usuario.id, usuario |-> usuario.usuario, permisos |-> RolPermisos(usuario), iat |-> t],
          IF RolNombre(usuario) = "undefined" THEN NoRec ELSE [rol |-> RolNombre(usuario)])

\* The HMAC of a message under a key: a different value for every pair.
Hmac(key, msg) == [key |-> key, msg |-> msg]

\* jwt.sign(payload, secret, {expiresIn, issuer, subject}): the registered
\* claims are added to the payload and the whole is signed.
JwtSign(payload, secret, expiresIn, issuer, subject) ==
    LET claims == Merge(payload, [exp |-> payload.iat + expiresIn, iss |-> issuer, sub |-> subject])
    IN  [payload |-> claims, sig |-> Hmac(secret, claims)]

\* jwt.verify(token, secret) at time t: the payload, or the error it throws
JwtVerify(token, secret, t) ==
    IF token.sig # Hmac(secret, token.payload) THEN [error |-> "JsonWebTokenError"]
    ELSE IF t >= token.payload.exp THEN [error |-> "TokenExpiredError"]
    ELSE token.payload

\* crearSesion 139-143 at time t
TokenAt(usuario, secret, t) ==
    JwtSign(Payload(usuario, t), secret, JwtExpiresIn, "backend-ifts", ToString(usuario.id))

\* crearSesion 130-143: jwt.sign(payload, secret, {expiresIn, issuer, subject})
Token(usuario, secret) == TokenAt(usuario, secret, now)

\* validarToken that also refuses a token cerrarSesion has closed
ValidarTokenUnlessCerrada(token, t) ==
    LET decoded == JwtVerify(token, JwtSecret, t) IN
    IF "error" \in DOMAIN decoded \/ token \in cerradas THEN Null ELSE decoded

\* validarToken that hands the error of jwt.verify to its caller
ValidarTokenRawResult(token, t) == JwtVerify(token, JwtSecret, t)

\* validarToken 180-188 at time t: the payload, null for whatever jwt.verify
\* throws
ValidarTokenResult(token, t) ==
    LET decoded == JwtVerify(token, JwtSecret, t) IN
    IF "error" \in DOMAIN decoded THEN Null ELSE decoded

\* crearSesion 146-155: the entry kept in sesionesActivas
Sesion(usuario, token) ==
    [id |-> token, usuarioId |-> usuario.id, usuario |-> usuario.usuario, rol |-> RolNombre(usuario),
     permisos |-> RolPermisos(usuario), fechaCreacion |-> now, ultimaActividad |-> now, activa |-> TRUE]

\* Map.prototype.set
MapSet(map, key, value) == [k \in DOMAIN map \cup {key} |-> IF k = key THEN value ELSE map[k]]

\* The message that goes with a result code: autenticarUsuario 33, 43, 68,
\* autenticarAdmin 91
Mensaje(code) ==
    CASE code = "USER_NOT_FOUND" -> "Credenciales inválidas"
      [] code = "INVALID_PASSWORD" -> "Contraseña incorrecta"
      [] code = "INTERNAL_ERROR" -> "Error interno del servidor"
      [] code = "INSUFFICIENT_PERMISSIONS" -> "Acceso denegado: Se requieren permisos de administrador"
      [] OTHER -> "Autenticación exitosa"

Failure(code) == [success |-> FALSE, code |-> code, usuario |-> NoRec, token |-> NoRec]

Success(usuario, token) == [success |-> TRUE, code |-> "OK", usuario |-> usuario, token |-> token]

\* autenticarUsuario 28-46: lookup and bcrypt.compare
PasswordCheck(doc, usuario, password) ==
    IF FindUsuario(doc, usuario) = 0 THEN "no-user"
    ELSE IF BcryptCompare(password, doc.usuarios[FindUsuario(doc, usuario)].password) THEN "pass"
    ELSE "fail"

\* autenticarUsuario 25-72: the result returned for a document. The lookup
\* throws for an unknown user and getUsuarioCompleto for a dangling link; the
\* catch turns both into INTERNAL_ERROR.
AutenticarUsuarioResult(doc, usuario, password) ==
    IF PasswordCheck(doc, usuario, password) = "no-user" THEN Failure("INTERNAL_ERROR")
    ELSE IF PasswordCheck(doc, usuario, password) = "fail" THEN Failure("INVALID_PASSWORD")
    ELSE LET completo == UsuarioCompleto(doc, Num(doc.usuarios[FindUsuario(doc, usuario)].id)) IN
         IF completo.status # "ok" THEN Failure("INTERNAL_ERROR")
         ELSE Success(completo.rec, Token(completo.rec, JwtSecret))

\* autenticarAdmin 80-97
AutenticarAdminResult(doc, usuario, password) ==
    LET resultado == AutenticarUsuarioResult(doc, usuario, password) IN
    IF ~resultado.success THEN resultado
    ELSE IF ~EsAdministrador(resultado.usuario) THEN Failure("INSUFFICIENT_PERMISSIONS")
    ELSE resultado

----------------------------------------------------------------------------
(* SpecAuth: users, credentials and login, one call at a time *)

AuthDoc ==
    [EmptyDoc EXCEPT
        !["roles"] = <<[id |-> 1, nombre |-> "admin", permisos |-> <<"gestionar_usuarios">>],
                       [id |-> 2, nombre |-> "medico", permisos |-> <<"acceso_medico">>]>>,
        !["perfiles"] = <<[id |-> 1, tipo |-> "empleado", empleadoId |-> 1],
                          [id |-> 2, tipo |-> "paciente", pacienteId |-> 1]>>,
        !["empleados"] = <<[id |-> 1, nombre |-> "Administrador del Sistema", puesto |-> "Administrador"]>>,
        !["pacientes"] = <<[id |-> 1, nombre |-> "Juan", dni |-> "30111222", historiaClinica |-> ""]>>,
        !["usuarios"] = <<[id |-> 1, usuario |-> "admin", password |-> BcryptHash("admin123", "s1"),
                           rolId |-> 1, perfilId |-> 1],
                          [id |-> 2, usuario |-> "mlopez", password |-> BcryptHash("clave1", "s2"),
                           rolId |-> 2, perfilId |-> 1]>>]

\* userData arguments of createUsuario: a taken and a free username, an empty
\* and two non-empty secrets, both roles, an existing and a dangling profile
UsuarioArgs ==
    [usuario : {"admin", "ana"}, password : {"", "clave2", "admin123"}, rolId : {1, 2}, perfilId : {1, 9}]

\* userData arguments of updateUsuario
UsuarioUpdateArgs == { [password |-> "clave2"], [password |-> ""], [rolId |-> 2] }

UsuarioIdArgs == { Num(1), Str("2"), Str("7x") }

LoginNames == {"admin", "mlopez", "ana"}

Passwords == {"", "admin123", "clave1", "clave2"}

Done(op, usuario, password, id, userData, result) ==
    /\ last' = [op |-> op, usuario |-> usuario, password |-> password, id |-> id,
                userData |-> userData, result |-> result]
    /\ nops' = nops + 1
    /\ UNCHANGED <<disk0, call, ncalls, deleted, now, cerradas>>

\* createUsuario 174-197, with create 68-87 and saveData, for userData drawn
\* from args
CreateUsuarioFrom(args) ==
    /\ nops < MaxOps
    /\ \E userData \in args, salt \in Salts :
          IF UsuarioInvalid(userData)
          THEN /\ Done("createUsuario", "", "", Num(0), userData, Err("Validation"))
               /\ UNCHANGED <<data, disk, sesionesActivas>>
          ELSE LET recordWithId == RecordWithId(Loaded.usuarios, UsuarioData(userData, salt))
                   doc == [Loaded EXCEPT !["usuarios"] = Append(@, recordWithId)]
               IN  /\ data' = doc
                   /\ disk' = doc
                   /\ Done("createUsuario", userData.usuario, userData.password, Num(0), userData,
                           Ok(recordWithId))
                   /\ UNCHANGED sesionesActivas

CreateUsuario == CreateUsuarioFrom(UsuarioArgs)

\* updateUsuario 199-207, with update 90-110 and saveData
UpdateUsuario ==
    /\ nops < MaxOps
    /\ \E id \in UsuarioIdArgs, userData \in UsuarioUpdateArgs, salt \in Salts :
          LET index == FindIndex(Loaded.usuarios, ParseInt(id)) IN
          IF index = 0
          THEN /\ data' = Loaded
               /\ Done("updateUsuario", "", "", id, userData, Err("RecordNotFound"))
               /\ UNCHANGED <<disk, sesionesActivas>>
          ELSE LET doc == [Loaded EXCEPT !["usuarios"][index] =
                              UpdatedRecord(@, HashedUpdate(userData, salt), id)]
               IN  /\ data' = doc
                   /\ disk' = doc
                   /\ Done("updateUsuario", doc.usuarios[index].usuario, "", id, userData,
                           Ok(doc.usuarios[index]))
                   /\ UNCHANGED sesionesActivas

\* What a login leaves in sesionesActivas: crearSesion 158 on success.
Tracked(resultado) ==
    IF resultado.success
    THEN MapSet(sesionesActivas, resultado.token, Sesion(resultado.usuario, resultado.token))
    ELSE sesionesActivas

\* autenticarUsuario 25-72
AutenticarUsuario ==
    /\ nops < MaxOps
    /\ \E usuario \in LoginNames, password \in Passwords :
          LET resultado == AutenticarUsuarioResult(Loaded, usuario, password) IN
          /\ data' = Loaded
          /\ sesionesActivas' = Tracked(resultado)
          /\ Done("autenticarUsuario", usuario, password, Num(0), NoRec, resultado)
          /\ UNCHANGED disk

\* autenticarAdmin 80-97: the session is created by autenticarUsuario before
\* the role is checked.
AutenticarAdmin ==
    /\ nops < MaxOps
    /\ \E usuario \in LoginNames, password \in Passwords :
          /\ data' = Loaded
          /\ sesionesActivas' = Tracked(AutenticarUsuarioResult(Loaded, usuario, password))
          /\ Done("autenticarAdmin", usuario, password, Num(0), NoRec,
                  AutenticarAdminResult(Loaded, usuario, password))
          /\ UNCHANGED disk

InitAuth ==
    /\ data = NoData
    /\ disk0 = AuthDoc
    /\ disk = disk0
    /\ call = [p \in Procs |-> Idle]
    /\ ncalls = 0
    /\ deleted = [t \in AllTables |-> {}]
    /\ sesionesActivas = << >>
    /\ last = NoRec
    /\ nops = 0
    /\ now = 0
    /\ cerradas = {}

NextAuth ==
    \/ CreateUsuario
    \/ UpdateUsuario
    \/ AutenticarUsuario
    \/ AutenticarAdmin

SpecAuth == InitAuth /\ [][NextAuth]_vars

----------------------------------------------------------------------------
(* SpecScenario: the same calls on a store that has the administrator role *)
(* and no user yet                                                          *)

ScenarioRoles == <<[id |-> 1, nombre |-> "admin", permisos |-> <<"manage_users">>]>>

\* The documents with that role and no user: nothing else; profile 1 with its
\* employee; profile 1 naming an employee that is absent; profile 1 of a
\* patient.
ScenarioDocs ==
    { [EmptyDoc EXCEPT !["roles"] = ScenarioRoles],
      [EmptyDoc EXCEPT !["roles"] = ScenarioRoles,
                       !["perfiles"] = <<[id |-> 1, tipo |-> "empleado", empleadoId |-> 1]>>,
                       !["empleados"] = <<[id |-> 1, nombre |-> "Ana", puesto |-> "Administrador"]>>],
      [EmptyDoc EXCEPT !["roles"] = ScenarioRoles,
                       !["perfiles"] = <<[id |-> 1, tipo |-> "empleado", empleadoId |-> 1]>>],
      [EmptyDoc EXCEPT !["roles"] = ScenarioRoles,
                       !["perfiles"] = <<[id |-> 1, tipo |-> "paciente", pacienteId |-> 1]>>,
                       !["pacientes"] = <<[id |-> 1, nombre |-> "Juan", dni |-> "30111222",
                                           historiaClinica |-> ""]>>] }

InitScenario ==
    /\ data = NoData
    /\ disk0 \in ScenarioDocs
    /\ disk = disk0
    /\ call = [p \in Procs |-> Idle]
    /\ ncalls = 0
    /\ deleted = [t \in AllTables |-> {}]
    /\ sesionesActivas = << >>
    /\ last = NoRec
    /\ nops = 0
    /\ now = 0
    /\ cerradas = {}

SpecScenario == InitScenario /\ [][NextAuth]_vars

----------------------------------------------------------------------------
(* SpecSesion: tokens and the session cache while the clock advances *)

\* The instants the clock takes: the start, and the hours at and after the
\* end of a token's life and of the default idle time.
Instants == {0, 24, 25}

\* limpiarSesionesExpiradas 292: 24 * 60 * 60 * 1000 ms, in hours
DefaultTiempoExpiracion == 24

\* tiempoExpiracion arguments of limpiarSesionesExpiradas
ThresholdArgs == {DefaultTiempoExpiracion, 0}

\* Map.prototype.delete
MapDelete(map, key) == [k \in DOMAIN map \ {key} |-> map[k]]

\* obtenerSesion that rebuilds the entry without the permissions of the claims
SesionRecreadaSinPermisos(token, payload, t) ==
    [id |-> token, usuarioId |-> payload.id, usuario |-> payload.usuario,
     rol |-> IF "rol" \in DOMAIN payload THEN payload.rol ELSE "undefined",
     permisos |-> << >>, fechaCreacion |-> payload.iat, ultimaActividad |-> t,
     activa |-> TRUE]

\* obtenerSesion 211-220: the entry rebuilt from the payload
SesionRecreada(token, payload, t) ==
    [id |-> token, usuarioId |-> payload.id, usuario |-> payload.usuario,
     rol |-> IF "rol" \in DOMAIN payload THEN payload.rol ELSE "undefined",
     permisos |-> payload.permisos, fechaCreacion |-> payload.iat, ultimaActividad |-> t,
     activa |-> TRUE]

\* obtenerSesion 203-204: the cache holds an active entry
Cached(map, token) == token \in DOMAIN map /\ map[token].activa

\* obtenerSesion that answers from the cache alone
ObtenerSesionCacheOnly(map, token, t) ==
    IF ValidarTokenResult(token, t) = Null THEN Null
    ELSE IF Cached(map, token) THEN [map[token] EXCEPT !.ultimaActividad = t]
    ELSE Null

\* obtenerSesion 195-224 at time t: the value returned
ObtenerSesionResult(map, token, t) ==
    IF ValidarTokenResult(token, t) = Null THEN Null
    ELSE IF Cached(map, token) THEN [map[token] EXCEPT !.ultimaActividad = t]
    ELSE SesionRecreada(token, ValidarTokenResult(token, t), t)

\* cerrarSesion 231-250: the value returned
CerrarSesionResult(token, t) == ValidarTokenResult(token, t) # Null

\* obtenerUsuarioActual 257-278: the complete user, null for an invalid
\* token or a failing lookup
ObtenerUsuarioActualResult(doc, token, t) ==
    LET payload == ValidarTokenResult(token, t) IN
    IF payload = Null THEN Null
    ELSE LET usuario == UsuarioCompleto(doc, Num(payload.id)) IN
         IF usuario.status = "ok" THEN usuario.rec ELSE Null

\* requireAdmin that believes the role embedded in the token
RequireAdminByClaimResult(doc, token, t) ==
    IF ValidarTokenResult(token, t) = Null THEN "401"
    ELSE IF ValidarTokenResult(token, t).rol # "admin" THEN "403" ELSE "next"

\* AuthController.requireAdmin 124-145: the HTTP status, "next" when the
\* request is let through
RequireAdminResult(doc, token, t) ==
    IF ValidarTokenResult(token, t) = Null THEN "401"
    ELSE LET usuario == ObtenerUsuarioActualResult(doc, token, t) IN
         IF usuario = Null \/ ~EsAdministrador(usuario) THEN "403" ELSE "next"

\* limpiarSesionesExpiradas that also sweeps an entry idle for exactly the
\* threshold
ExpiradaAtThreshold(sesion, t, tiempoExpiracion) == t - sesion.ultimaActividad >= tiempoExpiracion

\* limpiarSesionesExpiradas 295-296: tiempoInactivo > tiempoExpiracion
Expirada(sesion, t, tiempoExpiracion) == t - sesion.ultimaActividad > tiempoExpiracion

\* The users of AuthDoc, as getUsuarioCompleto returns them
AdminCompleto == UsuarioCompleto(AuthDoc, Num(1)).rec
MedicoCompleto == UsuarioCompleto(AuthDoc, Num(2)).rec

\* A token issued to the administrator by an earlier run of the process
PriorToken == TokenAt(AdminCompleto, JwtSecret, 0)

\* The same claims signed with another key
ForgedToken == TokenAt(AdminCompleto, "otra-clave", 0)

\* A token of mlopez whose role was edited after signing
TamperedToken ==
    LET token == TokenAt(MedicoCompleto, JwtSecret, 0) IN [token EXCEPT !.payload.rol = "admin"]

\* The tokens a caller may present: those tracked, those logged out, and the
\* three above
TokenArgs == DOMAIN sesionesActivas \cup cerradas \cup {PriorToken, ForgedToken, TamperedToken}

SesionDone(result) ==
    /\ last' = result
    /\ UNCHANGED <<disk, disk0, call, ncalls, deleted, nops, now>>

\* validarToken 180-188
ValidarToken ==
    \E token \in TokenArgs :
        /\ SesionDone([op |-> "validarToken", token |-> token, ret |-> ValidarTokenResult(token, now)])
        /\ UNCHANGED <<data, sesionesActivas, cerradas>>

\* obtenerSesion 195-224
ObtenerSesion ==
    \E token \in TokenArgs :
        LET sesion == ObtenerSesionResult(sesionesActivas, token, now) IN
        /\ sesionesActivas' = IF sesion = Null THEN sesionesActivas
                               ELSE MapSet(sesionesActivas, token, sesion)
        /\ SesionDone([op |-> "obtenerSesion", token |-> token, ret |-> sesion])
        /\ UNCHANGED <<data, cerradas>>

\* cerrarSesion 231-250
CerrarSesion ==
    \E token \in TokenArgs :
        /\ IF ValidarTokenResult(token, now) = Null
           THEN UNCHANGED <<sesionesActivas, cerradas>>
           ELSE /\ sesionesActivas' = MapDelete(sesionesActivas, token)
                /\ cerradas' = cerradas \cup {token}
        /\ SesionDone([op |-> "cerrarSesion", token |-> token, ok |-> CerrarSesionResult(token, now)])
        /\ UNCHANGED data

\* obtenerUsuarioActual 257-278
ObtenerUsuarioActual ==
    \E token \in TokenArgs :
        /\ data' = IF ValidarTokenResult(token, now) = Null THEN data ELSE Loaded
        /\ SesionDone([op |-> "obtenerUsuarioActual", token |-> token,
                       ret |-> ObtenerUsuarioActualResult(Loaded, token, now)])
        /\ UNCHANGED <<sesionesActivas, cerradas>>

\* AuthController.requireAdmin 109-153
RequireAdmin ==
    \E token \in TokenArgs :
        /\ data' = IF ValidarTokenResult(token, now) = Null THEN data ELSE Loaded
        /\ SesionDone([op |-> "requireAdmin", token |-> token,
                       status |-> RequireAdminResult(Loaded, token, now)])
        /\ UNCHANGED <<sesionesActivas, cerradas>>

\* limpiarSesionesExpiradas 292-300
LimpiarSesionesExpiradas ==
    \E tiempoExpiracion \in ThresholdArgs :
        /\ sesionesActivas' =
              [k \in {t \in DOMAIN sesionesActivas :
                         ~Expirada(sesionesActivas[t], now, tiempoExpiracion)} |-> sesionesActivas[k]]
        /\ SesionDone([op |-> "limpiarSesionesExpiradas", tiempoExpiracion |-> tiempoExpiracion])
        /\ UNCHANGED <<data, cerradas>>

\* Date.now() moves on
Tick ==
    /\ \E t \in Instants : t > now /\ now' = t
    /\ last' = [op |-> "tick"]
    /\ UNCHANGED <<data, disk, disk0, call, ncalls, deleted, sesionesActivas, nops, cerradas>>

NextSesion ==
    \/ (nops < MaxLogins /\ AutenticarUsuario)
    \/ ValidarToken
    \/ ObtenerSesion
    \/ CerrarSesion
    \/ ObtenerUsuarioActual
    \/ RequireAdmin
    \/ LimpiarSesionesExpiradas
    \/ Tick

SpecSesion == InitAuth /\ [][NextSesion]_vars

----------------------------------------------------------------------------
(* SpecEntidades: the entity-specific creators and the composed reads, one *)
(* call at a time                                                          *)

\* { a, b, c } = data: the named keys, those the caller gave
Pick(rec, keys) == [k \in DOMAIN rec \cap keys |-> rec[k]]

\* A record without one of its keys
Drop(rec, key) == [k \in DOMAIN rec \ {key} |-> rec[k]]

\* A valid argument and the same with each required field left out
WithMissing(valid, required) == {valid} \cup {Drop(valid, k) : k \in required}

\* createRole 142
RoleInvalid(roleData) == FalsyStr(roleData, "nombre") \/ "permisos" \notin DOMAIN roleData

\* createPerfil that stores whatever it is given
PerfilNeverInvalid(perfilData) == FALSE

\* createPerfil 224
PerfilInvalid(perfilData) == FalsyStr(perfilData, "tipo")

\* createEmpleado 249
EmpleadoInvalid(empleadoData) == FalsyStr(empleadoData, "nombre") \/ FalsyStr(empleadoData, "puesto")

\* createPaciente 283
PacienteInvalid(pacienteData) == FalsyStr(pacienteData, "nombre") \/ FalsyStr(pacienteData, "dni")

\* createInsumo 308: stock === undefined, so a stock of 0 is accepted
InsumoInvalid(insumoData) ==
    FalsyStr(insumoData, "nombre") \/ "stock" \notin DOMAIN insumoData \/ FalsyStr(insumoData, "unidad")

\* getTareasCompletas 396-415: every task with its employee and, when it
\* names one, its patient; the first lookup that throws rejects the call.
TareasCompletasResult(doc) ==
    LET tareas == doc.tareas
        empleado(i) == GetByKey(doc, "empleados", tareas[i], "empleadoId")
        paciente(i) == IF FalsyNum(tareas[i], "pacienteId") THEN Ok(Null)
                       ELSE GetByKey(doc, "pacientes", tareas[i], "pacienteId")
    IN  IF \E i \in 1..Len(tareas) : empleado(i).status # "ok" \/ paciente(i).status # "ok"
        THEN [status |-> "RecordNotFound", rows |-> << >>]
        ELSE [status |-> "ok",
              rows |-> [i \in 1..Len(tareas) |->
                          Merge(tareas[i], [empleado |-> empleado(i).rec, paciente |-> paciente(i).rec])]]

\* getEstadisticas 423: the stock below which a supply counts as low
LowStock == 50

\* A supply counts as low when its stock has reached the threshold
BajoStockInclusive(insumo) == insumo.stock <= LowStock

\* getEstadisticas 423: i.stock < 50
BajoStock(insumo) == insumo.stock < LowStock

\* Array.prototype.filter(...).length
Count(rows, Test(_)) == Cardinality({i \in 1..Len(rows) : Test(rows[i])})

\* getEstadisticas 418-435
Estadisticas(doc) ==
    [totalUsuarios |-> Len(doc.usuarios),
     totalEmpleados |-> Len(doc.empleados),
     totalPacientes |-> Len(doc.pacientes),
     totalInsumos |-> Len(doc.insumos),
     totalTareas |-> Len(doc.tareas),
     tareasPendientes |-> Count(doc.tareas, LAMBDA t : t.estado = "pendiente"),
     tareasCompletadas |-> Count(doc.tareas, LAMBDA t : t.estado = "completada"),
     insumosConBajoStock |-> Count(doc.insumos, BajoStock)]

\* getTareasByEstado that rejects when no task matches
TareasByEstadoOrFail(doc, estado) ==
    IF \A i \in 1..Len(doc.tareas) : doc.tareas[i].estado # estado
    THEN [status |-> "RecordNotFound", rows |-> << >>]
    ELSE [status |-> "ok", rows |-> SelectSeq(doc.tareas, LAMBDA t : t.estado = estado)]

\* getTareasByEstado 345-348: this.data.tareas.filter(t => t.estado === estado)
TareasByEstado(doc, estado) ==
    [status |-> "ok", rows |-> SelectSeq(doc.tareas, LAMBDA t : t.estado = estado)]

\* estado arguments of getTareasByEstado
EstadoArgs == {"pendiente", "completada", "cancelada"}

\* db.json with the users of AuthDoc and two tasks, one of them for a patient
EntidadesDoc ==
    [AuthDoc EXCEPT
        !["tareas"] = <<[id |-> 1, descripcion |-> "control", empleadoId |-> 1, pacienteId |-> 1,
                         estado |-> "pendiente", fecha |-> "2024-01-01"],
                        [id |-> 2, descripcion |-> "inventario", empleadoId |-> 1,
                         estado |-> "pendiente", fecha |-> "2024-01-02"]>>,
        !["insumos"] = <<[id |-> 1, nombre |-> "gasas", stock |-> 40, unidad |-> "caja"]>>]

\* userData of createUsuario: a user of the profile the next createPerfil
\* stores (id 3), and the same with each required field left out
UsuarioEntidadArgs ==
    WithMissing([usuario |-> "ana", password |-> "clave2", rolId |-> 1, perfilId |-> 3],
                {"usuario", "password", "rolId", "perfilId"})

RoleArgs == WithMissing([nombre |-> "auditor", permisos |-> <<"ver_reportes">>], {"nombre", "permisos"})

\* perfilData of createPerfil: an employee's, a patient's, one naming both,
\* one naming neither, one of kind empleado naming a patient that is absent,
\* one naming an employee that is absent, and one without tipo
PerfilArgs ==
    { [tipo |-> "empleado", empleadoId |-> 1],
      [tipo |-> "paciente", pacienteId |-> 1],
      [tipo |-> "empleado", empleadoId |-> 1, pacienteId |-> 1],
      [tipo |-> "empleado"],
      [tipo |-> "empleado", pacienteId |-> 9],
      [tipo |-> "empleado", empleadoId |-> 9],
      [empleadoId |-> 1] }

EmpleadoArgs == WithMissing([nombre |-> "Luis", puesto |-> "Enfermero"], {"nombre", "puesto"})

\* pacienteData of createPaciente: a dni that is taken, one that is free, and
\* the required fields left out
PacienteArgs ==
    WithMissing([nombre |-> "Rosa", dni |-> "30111222", historiaClinica |-> ""], {"nombre", "dni"})
        \cup {[nombre |-> "Rosa", dni |-> "40999888", historiaClinica |-> ""]}

\* id and pacienteData of updatePaciente
PacienteUpdateArgs == { [id |-> Num(1), pacienteData |-> [dni |-> "40999888"]] }

\* tareaData of createTarea: a task for a patient that is absent, and the
\* required fields left out
TareaArgs ==
    WithMissing([descripcion |-> "curar", empleadoId |-> 1, pacienteId |-> 9, estado |-> "pendiente",
                 fecha |-> "2024-02-02"],
                {"descripcion", "empleadoId", "estado", "fecha"})
        \cup {[descripcion |-> "alta", empleadoId |-> 1, estado |-> "completada", fecha |-> "2024-02-03"]}

\* insumoData of createInsumo: a stock of 0, and the required fields left out
InsumoArgs ==
    WithMissing([nombre |-> "jeringas", stock |-> 0, unidad |-> "unidad"], {"nombre", "stock", "unidad"})
        \cup {[nombre |-> "guantes", stock |-> LowStock, unidad |-> "par"]}

\* An entity-specific creator: the validation, then create 68-87 and saveData
CreateEntity(op, tableName, entityData, invalid, newRecord) ==
    /\ nops < MaxOps
    /\ IF invalid
       THEN /\ Done(op, "", "", Num(0), entityData, Err("Validation"))
            /\ UNCHANGED <<data, disk, sesionesActivas>>
       ELSE LET recordWithId == RecordWithId(Loaded[tableName], newRecord)
                doc == [Loaded EXCEPT ![tableName] = Append(@, recordWithId)]
            IN  /\ data' = doc
                /\ disk' = doc
                /\ Done(op, "", "", Num(0), entityData, Ok(recordWithId))
                /\ UNCHANGED sesionesActivas

\* createRole 140-146
CreateRole ==
    \E roleData \in RoleArgs :
        CreateEntity("createRole", "roles", roleData, RoleInvalid(roleData),
                     Pick(roleData, {"nombre", "permisos"}))

\* createPerfil 222-228
CreatePerfil ==
    \E perfilData \in PerfilArgs :
        CreateEntity("createPerfil", "perfiles", perfilData, PerfilInvalid(perfilData),
                     Pick(perfilData, {"tipo", "empleadoId", "pacienteId"}))

\* createEmpleado 247-253
CreateEmpleado ==
    \E empleadoData \in EmpleadoArgs :
        CreateEntity("createEmpleado", "empleados", empleadoData, EmpleadoInvalid(empleadoData),
                     Pick(empleadoData, {"nombre", "puesto"}))

\* createPaciente 281-287
CreatePaciente ==
    \E pacienteData \in PacienteArgs :
        CreateEntity("createPaciente", "pacientes", pacienteData, PacienteInvalid(pacienteData),
                     Pick(pacienteData, {"nombre", "dni", "historiaClinica"}))

\* createTarea 350-356: tareaData goes to create as it came
CreateTarea ==
    \E tareaData \in TareaArgs :
        CreateEntity("createTarea", "tareas", tareaData, TareaInvalid(tareaData), tareaData)

\* createInsumo 306-312
CreateInsumo ==
    \E insumoData \in InsumoArgs :
        CreateEntity("createInsumo", "insumos", insumoData, InsumoInvalid(insumoData),
                     Pick(insumoData, {"nombre", "stock", "unidad"}))

\* updatePaciente 289-291, with update 90-110 and saveData
UpdatePaciente ==
    /\ nops < MaxOps
    /\ \E arg \in PacienteUpdateArgs :
          LET index == FindIndex(Loaded.pacientes, ParseInt(arg.id))
              doc == [Loaded EXCEPT !["pacientes"][index] = UpdatedRecord(@, arg.pacienteData, arg.id)]
          IN  /\ index # 0
              /\ data' = doc
              /\ disk' = doc
              /\ Done("updatePaciente", "", "", arg.id, arg.pacienteData, Ok(doc.pacientes[index]))
              /\ UNCHANGED sesionesActivas

\* A read has returned: the document is resident, nothing else changes.
ReadDone(result) ==
    /\ last' = result
    /\ data' = Loaded
    /\ UNCHANGED <<disk, disk0, call, ncalls, deleted, nops, now, sesionesActivas, cerradas>>

\* getUsuarioCompleto 373-393
GetUsuarioCompleto ==
    \E id \in {Num(1), Num(3)} :
        ReadDone([op |-> "getUsuarioCompleto", id |-> id, result |-> UsuarioCompleto(Loaded, id)])

\* getTareasCompletas 396-415
GetTareasCompletas ==
    ReadDone([op |-> "getTareasCompletas", tareas |-> TareasCompletasResult(Loaded)])

\* getEstadisticas 418-435
GetEstadisticas ==
    ReadDone([op |-> "getEstadisticas", stats |-> Estadisticas(Loaded)])

\* getTareasByEstado 345-348
GetTareasByEstado ==
    \E estado \in EstadoArgs :
        ReadDone([op |-> "getTareasByEstado", estado |-> estado, tareas |-> TareasByEstado(Loaded, estado)])

InitEntidades ==
    /\ data = NoData
    /\ disk0 = EntidadesDoc
    /\ disk = disk0
    /\ call = [p \in Procs |-> Idle]
    /\ ncalls = 0
    /\ deleted = [t \in AllTables |-> {}]
    /\ sesionesActivas = << >>
    /\ last = NoRec
    /\ nops = 0
    /\ now = 0
    /\ cerradas = {}

NextEntidades ==
    \/ CreateUsuarioFrom(UsuarioEntidadArgs)
    \/ CreateRole
    \/ CreatePerfil
    \/ CreateEmpleado
    \/ CreatePaciente
    \/ CreateTarea
    \/ CreateInsumo
    \/ UpdatePaciente
    \/ GetUsuarioCompleto
    \/ GetTareasCompletas
    \/ GetEstadisticas
    \/ GetTareasByEstado

SpecEntidades == InitEntidades /\ [][NextEntidades]_vars

----------------------------------------------------------------------------
(* SpecAutorizacion: the authorization middlewares while users and roles *)
(* change                                                                *)

\* tienePermiso under which the administrator's role holds every permission
TienePermisoOrAdmin(usuario, permiso) ==
    \/ EsAdministrador(usuario)
    \/ /\ "rol" \in DOMAIN usuario
       /\ "permisos" \in DOMAIN usuario.rol
       /\ \E i \in 1..Len(usuario.rol.permisos) : usuario.rol.permisos[i] = permiso

\* tienePermiso 114-119
TienePermiso(usuario, permiso) ==
    /\ "rol" \in DOMAIN usuario
    /\ "permisos" \in DOMAIN usuario.rol
    /\ \E i \in 1..Len(usuario.rol.permisos) : usuario.rol.permisos[i] = permiso

\* AuthController.requirePermission 177-198
RequirePermissionResult(doc, token, t, permiso) ==
    IF ValidarTokenResult(token, t) = Null THEN "401"
    ELSE LET usuario == ObtenerUsuarioActualResult(doc, token, t) IN
         IF usuario = Null \/ ~TienePermiso(usuario, permiso) THEN "403" ELSE "next"

\* AuthController.requirePaciente 224-257
RequirePacienteResult(doc, token, t) ==
    IF ValidarTokenResult(token, t) = Null THEN "401"
    ELSE LET usuario == ObtenerUsuarioActualResult(doc, token, t) IN
         IF usuario = Null THEN "401"
         ELSE IF RolNombre(usuario) # "paciente" THEN "403" ELSE "next"

\* AuthController.requireMultipleRoles 281-314
RequireMultipleRolesResult(doc, token, t, rolesPermitidos) ==
    IF ValidarTokenResult(token, t) = Null THEN "401"
    ELSE LET usuario == ObtenerUsuarioActualResult(doc, token, t) IN
         IF usuario = Null THEN "401"
         ELSE IF RolNombre(usuario) \notin rolesPermitidos THEN "403" ELSE "next"

\* id and roleData arguments of updateRole: the administrators lose their
\* permissions; the second role is renamed
RoleUpdateArgs ==
    { [id |-> Num(1), roleData |-> [permisos |-> << >>]],
      [id |-> Num(2), roleData |-> [nombre |-> "paciente"]] }

\* permiso arguments of requirePermission
PermisoArgs == {"gestionar_usuarios"}

\* rolesPermitidos arguments of requireMultipleRoles
RolesPermitidosArgs == { {"admin", "medico"} }

\* updateRole 148-150, with update 90-110 and saveData
UpdateRole ==
    /\ nops < MaxOps
    /\ \E arg \in RoleUpdateArgs :
          LET index == FindIndex(Loaded.roles, ParseInt(arg.id))
              doc == [Loaded EXCEPT !["roles"][index] = UpdatedRecord(@, arg.roleData, arg.id)]
          IN  /\ index # 0
              /\ data' = doc
              /\ disk' = doc
              /\ Done("updateRole", "", "", arg.id, arg.roleData, Ok(doc.roles[index]))
              /\ UNCHANGED sesionesActivas

\* A middleware has answered: it reads the store and changes nothing else.
Answered(result) ==
    /\ SesionDone(result)
    /\ data' = IF ValidarTokenResult(result.token, now) = Null THEN data ELSE Loaded
    /\ UNCHANGED <<sesionesActivas, cerradas>>

\* AuthController.requirePermission 160-207
RequirePermission ==
    \E token \in TokenArgs, permiso \in PermisoArgs :
        Answered([op |-> "requirePermission", token |-> token, permiso |-> permiso,
                  status |-> RequirePermissionResult(Loaded, token, now, permiso)])

\* AuthController.requirePaciente 212-267
RequirePaciente ==
    \E token \in TokenArgs :
        Answered([op |-> "requirePaciente", token |-> token,
                  status |-> RequirePacienteResult(Loaded, token, now)])

\* AuthController.requireMultipleRoles 272-324
RequireMultipleRoles ==
    \E token \in TokenArgs, rolesPermitidos \in RolesPermitidosArgs :
        Answered([op |-> "requireMultipleRoles", token |-> token, roles |-> rolesPermitidos,
                  status |-> RequireMultipleRolesResult(Loaded, token, now, rolesPermitidos)])

NextAutorizacion ==
    \/ AutenticarUsuario
    \/ UpdateUsuario
    \/ UpdateRole
    \/ RequireAdmin
    \/ RequirePermission
    \/ RequirePaciente
    \/ RequireMultipleRoles

SpecAutorizacion == InitAuth /\ [][NextAutorizacion]_vars

----------------------------------------------------------------------------
(* SpecHttp: the endpoints of AuthController, one request at a time *)

\* The text 'Bearer ' inside a header value; a header value is the sequence
\* of its pieces, each this text or a token
Bearer == [bearer |-> TRUE]

\* String.prototype.replace('Bearer ', ''): the first occurrence is removed
StripBearer(value) ==
    IF \E i \in 1..Len(value) : value[i] = Bearer
    THEN Splice(value, Min({i \in 1..Len(value) : value[i] = Bearer}))
    ELSE value

\* The token read in a cookie before the one in x-session-id and that before
\* the one in authorization
ExtractTokenCookieFirst(req) ==
    IF "cookie" \in DOMAIN req THEN req.cookie
    ELSE IF "xSessionId" \in DOMAIN req THEN req.xSessionId
    ELSE IF "authorization" \in DOMAIN req /\ StripBearer(req.authorization) # << >>
    THEN StripBearer(req.authorization)[1]
    ELSE Null

\* AuthController 112-114, 335-337, 401-403:
\* headers['authorization']?.replace('Bearer ', '') || headers['x-session-id']
\* || cookies?.sessionId; null for a falsy result
ExtractToken(req) ==
    IF "authorization" \in DOMAIN req /\ StripBearer(req.authorization) # << >>
    THEN StripBearer(req.authorization)[1]
    ELSE IF "xSessionId" \in DOMAIN req THEN req.xSessionId
    ELSE IF "cookie" \in DOMAIN req THEN req.cookie
    ELSE Null

\* The requests: each of the three sources absent or carrying the
\* administrator's token or the forged one; the authorization header may
\* also be empty
RequestArgs ==
    { Merge(a, Merge(x, c)) :
        a \in {NoRec} \cup {[authorization |-> v] :
                               v \in {<<Bearer, PriorToken>>, <<Bearer, ForgedToken>>, << >>}},
        x \in {NoRec} \cup {[xSessionId |-> t] : t \in {PriorToken, ForgedToken}},
        c \in {NoRec, [cookie |-> PriorToken]} }

\* req.body of the login endpoints: no password, the administrator with the
\* right and a wrong secret, a medic, the user whose profile is absent, and a
\* name nobody has
BodyArgs ==
    { [usuario |-> "admin"],
      [usuario |-> "admin", password |-> "admin123"],
      [usuario |-> "admin", password |-> "clave1"],
      [usuario |-> "mlopez", password |-> "clave1"],
      [usuario |-> "ana", password |-> "clave2"],
      [usuario |-> "zoe", password |-> "clave1"] }

\* userData of a user whose profile is absent
HttpUsuarioArgs == { [usuario |-> "ana", password |-> "clave2", rolId |-> 1, perfilId |-> 9] }

\* login 78-83: the status for a result of autenticarUsuario
LoginStatus(resultado) == IF resultado.success THEN "200" ELSE "401"

\* loginAdmin 29-35: the status for a result of autenticarAdmin
LoginAdminStatus(resultado) ==
    IF resultado.success THEN "200"
    ELSE IF resultado.code = "INSUFFICIENT_PERMISSIONS" THEN "403" ELSE "401"

\* AuthController.getCurrentUser 341-357: the HTTP status
GetCurrentUserResult(doc, token, t) ==
    IF ValidarTokenResult(token, t) = Null THEN "401"
    ELSE IF ObtenerUsuarioActualResult(doc, token, t) = Null THEN "401" ELSE "200"

\* What a request leaves behind: the endpoint, the request, the token handed
\* to AuthService (null when AuthService was not called) and the status
Responded(op, req, token, status) ==
    /\ last' = [op |-> op, req |-> req, token |-> token, status |-> status]
    /\ UNCHANGED <<disk, disk0, call, ncalls, deleted, nops, now>>

\* AuthController.login 62-105
LoginRequest ==
    \E body \in BodyArgs :
        IF FalsyStr(body, "usuario") \/ FalsyStr(body, "password")
        THEN /\ Responded("login", body, Null, "400")
             /\ UNCHANGED <<data, sesionesActivas, cerradas>>
        ELSE LET resultado == AutenticarUsuarioResult(Loaded, body.usuario, body.password) IN
             /\ data' = Loaded
             /\ sesionesActivas' = Tracked(resultado)
             /\ Responded("login", body, Null, LoginStatus(resultado))
             /\ UNCHANGED cerradas

\* AuthController.loginAdmin 13-57
LoginAdminRequest ==
    \E body \in BodyArgs :
        IF FalsyStr(body, "usuario") \/ FalsyStr(body, "password")
        THEN /\ Responded("loginAdmin", body, Null, "400")
             /\ UNCHANGED <<data, sesionesActivas, cerradas>>
        ELSE /\ data' = Loaded
             /\ sesionesActivas' = Tracked(AutenticarUsuarioResult(Loaded, body.usuario, body.password))
             /\ Responded("loginAdmin", body, Null,
                          LoginAdminStatus(AutenticarAdminResult(Loaded, body.usuario, body.password)))
             /\ UNCHANGED cerradas

\* AuthController.requireAdmin 109-153, from the request
RequireAdminRequest ==
    \E req \in RequestArgs :
        LET token == ExtractToken(req) IN
        /\ IF token = Null
           THEN Responded("requireAdmin", req, Null, "401") /\ UNCHANGED data
           ELSE /\ Responded("requireAdmin", req, token, RequireAdminResult(Loaded, token, now))
                /\ data' = IF ValidarTokenResult(token, now) = Null THEN data ELSE Loaded
        /\ UNCHANGED <<sesionesActivas, cerradas>>

\* AuthController.getCurrentUser 332-385
GetCurrentUserRequest ==
    \E req \in RequestArgs :
        LET token == ExtractToken(req) IN
        /\ IF token = Null
           THEN Responded("getCurrentUser", req, Null, "401") /\ UNCHANGED data
           ELSE /\ Responded("getCurrentUser", req, token,
                             GetCurrentUserResult(Loaded, token, now))
                /\ data' = IF ValidarTokenResult(token, now) = Null THEN data ELSE Loaded
        /\ UNCHANGED <<sesionesActivas, cerradas>>

\* AuthController.logout 398-436
LogoutRequest ==
    \E req \in RequestArgs :
        LET token == ExtractToken(req) IN
        /\ IF token = Null
           THEN Responded("logout", req, Null, "400") /\ UNCHANGED <<sesionesActivas, cerradas>>
           ELSE IF ~CerrarSesionResult(token, now)
           THEN Responded("logout", req, token, "400") /\ UNCHANGED <<sesionesActivas, cerradas>>
           ELSE /\ Responded("logout", req, token, "200")
                /\ sesionesActivas' = MapDelete(sesionesActivas, token)
                /\ cerradas' = cerradas \cup {token}
        /\ UNCHANGED data

NextHttp ==
    \/ (nops < MaxLogins /\ CreateUsuarioFrom(HttpUsuarioArgs))
    \/ LoginRequest
    \/ LoginAdminRequest
    \/ RequireAdminRequest
    \/ GetCurrentUserRequest
    \/ LogoutRequest

SpecHttp == InitAuth /\ [][NextHttp]_vars

----------------------------------------------------------------------------
(* SpecBaja: tokens that outlive the records they were issued for *)

\* tableName and id arguments of deleteUsuario, deleteRole and deletePerfil
BajaArgs ==
    { [op |-> "deleteUsuario", table |-> "usuarios", id |-> Num(1)],
      [op |-> "deleteUsuario", table |-> "usuarios", id |-> Num(2)],
      [op |-> "deleteRole", table |-> "roles", id |-> Num(2)],
      [op |-> "deletePerfil", table |-> "perfiles", id |-> Num(1)] }

\* userData of the administrator created after a removal
BajaUsuarioArgs == { [usuario |-> "ana", password |-> "clave2", rolId |-> 1, perfilId |-> 1] }

\* deleteUsuario 209-211, deleteRole 152-154, deletePerfil 234-236, with
\* delete 113-127 and saveData
DeleteRecord ==
    /\ nops < MaxOps
    /\ \E arg \in BajaArgs :
          LET index == FindIndex(Loaded[arg.table], ParseInt(arg.id)) IN
          IF index = 0
          THEN /\ data' = Loaded
               /\ Done(arg.op, "", "", arg.id, NoRec, Err("RecordNotFound"))
               /\ UNCHANGED <<disk, sesionesActivas>>
          ELSE LET doc == [Loaded EXCEPT ![arg.table] = Splice(@, index)] IN
               /\ data' = doc
               /\ disk' = doc
               /\ Done(arg.op, "", "", arg.id, NoRec, Ok(Loaded[arg.table][index]))
               /\ UNCHANGED sesionesActivas

\* AuthController.getCurrentUser 332-385, for a token
GetCurrentUser ==
    \E token \in TokenArgs :
        Answered([op |-> "getCurrentUser", token |-> token,
                  status |-> GetCurrentUserResult(Loaded, token, now)])

NextBaja ==
    \/ LoginRequest
    \/ DeleteRecord
    \/ CreateUsuarioFrom(BajaUsuarioArgs)
    \/ RequireAdmin
    \/ RequirePermission
    \/ RequirePaciente
    \/ RequireMultipleRoles
    \/ GetCurrentUser

SpecBaja == InitAuth /\ [][NextBaja]_vars

----------------------------------------------------------------------------
(* SpecBootstrap: the provisioning of the default administrator *)

\* helper.js 22-25, 38-40: the fixed employee, username, secret and role id
AdminEmpleado == [nombre |-> "Administrador del Sistema", puesto |-> "Administrador"]

AdminUsuario == "admin"

AdminPassword == "admin123"

AdminRolId == 1

\* db.json as the bootstrap may find it: the roles and nobody yet; the users
\* of AuthDoc; roles whose id 1 is not the administrator's; no role at all
BootstrapDocs ==
    { [EmptyDoc EXCEPT !["roles"] = AuthDoc.roles],
      AuthDoc,
      [EmptyDoc EXCEPT !["roles"] = <<[id |-> 1, nombre |-> "medico", permisos |-> <<"acceso_medico">>],
                                      [id |-> 2, nombre |-> "admin", permisos |-> <<"gestionar_usuarios">>]>>],
      EmptyDoc }

\* helper.js 22-42: createEmpleado, createPerfil and createUsuario in turn on
\* doc, each an append with the next id. pacienteId: null is left out of the
\* profile: every reader tests it for truthiness only.
Provisioned(doc, salt) ==
    LET empleadoAdmin == RecordWithId(doc.empleados, AdminEmpleado)
        perfilAdmin == RecordWithId(doc.perfiles, [tipo |-> "empleado", empleadoId |-> empleadoAdmin.id])
        usuarioAdmin == RecordWithId(doc.usuarios,
                                     UsuarioData([usuario |-> AdminUsuario, password |-> AdminPassword,
                                                  rolId |-> AdminRolId, perfilId |-> perfilAdmin.id], salt))
    IN  [doc EXCEPT !["empleados"] = Append(@, empleadoAdmin),
                    !["perfiles"] = Append(@, perfilAdmin),
                    !["usuarios"] = Append(@, usuarioAdmin)]

\* crearUsuarioAdmin 9-56: the user named admin if there is one, otherwise
\* the user it provisions
CrearUsuarioAdmin ==
    /\ nops < MaxOps
    /\ LET index == FindUsuario(Loaded, AdminUsuario) IN
       IF index # 0
       THEN /\ data' = Loaded
            /\ Done("crearUsuarioAdmin", AdminUsuario, AdminPassword, Num(0), NoRec,
                    Ok(Loaded.usuarios[index]))
            /\ UNCHANGED <<disk, sesionesActivas>>
       ELSE \E salt \in Salts :
              LET doc == Provisioned(Loaded, salt) IN
              /\ data' = doc
              /\ disk' = doc
              /\ Done("crearUsuarioAdmin", AdminUsuario, AdminPassword, Num(0), NoRec,
                      Ok(doc.usuarios[Len(doc.usuarios)]))
              /\ UNCHANGED sesionesActivas

InitBootstrap ==
    /\ data = NoData
    /\ disk0 \in BootstrapDocs
    /\ disk = disk0
    /\ call = [p \in Procs |-> Idle]
    /\ ncalls = 0
    /\ deleted = [t \in AllTables |-> {}]
    /\ sesionesActivas = << >>
    /\ last = NoRec
    /\ nops = 0
    /\ now = 0
    /\ cerradas = {}

NextBootstrap ==
    \/ CrearUsuarioAdmin
    \/ UpdateUsuario
    \/ AutenticarAdmin

SpecBootstrap == InitBootstrap /\ [][NextBootstrap]_vars

----------------------------------------------------------------------------
(* Claims about users, credentials and login, under SpecAuth *)

\* C8: the password field of every stored user, in memory and in db.json, is
\* a hash after any sequence of createUsuario and updateUsuario calls, also
\* after updateUsuario with a password that is present but empty.
C8_PasswordsAreHashes ==
    /\ data # NoData =>
          \A i \in 1..Len(data.usuarios) : IsBcryptHash(data.usuarios[i].password)
    /\ disk # Corrupt =>
          \A i \in 1..Len(disk.usuarios) : IsBcryptHash(disk.usuarios[i].password)

\* The secret p, and no other, authenticates username u against doc.
RoundTrip(doc, u, p) ==
    /\ PasswordCheck(doc, u, p) = "pass"
    /\ \A q \in Passwords \ {p} : AutenticarUsuarioResult(doc, u, q).code = "INVALID_PASSWORD"

\* C9: after createUsuario with username u and secret p, or updateUsuario
\* setting the secret to p, autenticarUsuario(u, p) passes the password check
\* and autenticarUsuario(u, q) fails with INVALID_PASSWORD for every other q
\* (the former secret included).
C9_CredentialRoundTrip ==
    [][nops' # nops =>
          /\ (last'.op = "createUsuario" /\ last'.result.status = "ok")
                => RoundTrip(data', last'.usuario, last'.password)
          /\ (last'.op = "updateUsuario" /\ last'.result.status = "ok"
                                         /\ "password" \in DOMAIN last'.userData)
                => RoundTrip(data', last'.usuario, last'.userData.password)]_vars

\* C10: autenticarAdmin with valid credentials fails with
\* INSUFFICIENT_PERMISSIONS when the user's role is not admin, and succeeds
\* with a token whose claims carry the role admin when it is.
C10_AdminLoginByRole ==
    [][(nops' # nops /\ last'.op = "autenticarAdmin"
                     /\ PasswordCheck(Loaded, last'.usuario, last'.password) = "pass") =>
          LET found == Loaded.usuarios[FindUsuario(Loaded, last'.usuario)]
              rol == GetByKey(Loaded, "roles", found, "rolId")
          IN  /\ (rol.status = "ok" /\ rol.rec.nombre # "admin")
                    => last'.result.code = "INSUFFICIENT_PERMISSIONS"
              /\ (rol.status = "ok" /\ rol.rec.nombre = "admin")
                    => (last'.result.success /\ last'.result.token.payload.rol = "admin")]_vars

\* C10, for resolvable users: autenticarAdmin with valid credentials of a user
\* whose role, profile and linked employee or patient records exist fails
\* with INSUFFICIENT_PERMISSIONS when the role is not admin and succeeds with
\* a token carrying the role admin when it is; when one of these links is
\* dangling the valid credentials end in INTERNAL_ERROR instead.
C10_AdminLoginByRoleResolved ==
    [][(nops' # nops /\ last'.op = "autenticarAdmin"
                     /\ PasswordCheck(Loaded, last'.usuario, last'.password) = "pass") =>
          LET found == Loaded.usuarios[FindUsuario(Loaded, last'.usuario)]
              rol == GetByKey(Loaded, "roles", found, "rolId")
              resolved == UsuarioCompleto(Loaded, Num(found.id)).status = "ok"
          IN  /\ (resolved /\ rol.rec.nombre # "admin")
                    => /\ ~last'.result.success
                       /\ last'.result.code = "INSUFFICIENT_PERMISSIONS"
              /\ (resolved /\ rol.rec.nombre = "admin")
                    => /\ last'.result.success
                       /\ last'.result.token.payload.rol = "admin"
                       /\ ValidarTokenResult(last'.result.token, now') # Null
              /\ ~resolved => last'.result.code = "INTERNAL_ERROR"]_vars

\* A non-admin with valid credentials has just been refused by
\* autenticarAdmin, and an administrator holds a session.
C10_NonAdminRefused ==
    /\ last # NoRec
    /\ last.op = "autenticarAdmin"
    /\ last.result.code = "INSUFFICIENT_PERMISSIONS"
    /\ PasswordCheck(data, last.usuario, last.password) = "pass"
    /\ \E token \in DOMAIN sesionesActivas : token.payload.rol = "admin" /\ sesionesActivas[token].activa

\* C12: autenticarUsuario with a username absent from the store and
\* autenticarUsuario with an existing username and a wrong secret return the
\* same failure code and message.
C12_UnknownUserLikeWrongSecret ==
    [][(/\ nops >= 1
        /\ nops' = nops + 1
        /\ last.op = "autenticarUsuario"
        /\ last'.op = "autenticarUsuario"
        /\ PasswordCheck(Loaded, last.usuario, last.password) = "no-user"
        /\ PasswordCheck(Loaded, last'.usuario, last'.password) = "fail") =>
          /\ last'.result.success = last.result.success
          /\ last'.result.code = last.result.code
          /\ Mensaje(last'.result.code) = Mensaje(last.result.code)]_vars

\* C13: autenticarUsuario with a username absent from the store fails with
\* the code USER_NOT_FOUND, not with INTERNAL_ERROR.
C13_UnknownUserNotFound ==
    [][(/\ nops' = nops + 1
        /\ last'.op = "autenticarUsuario"
        /\ PasswordCheck(Loaded, last'.usuario, last'.password) = "no-user") =>
          /\ ~last'.result.success
          /\ last'.result.code = "USER_NOT_FOUND"]_vars

\* C24: after any sequence of createUsuario and updateUsuario calls no two
\* stored users have the same username.
C24_UniqueUsernames ==
    data # NoData =>
        \A i, j \in 1..Len(data.usuarios) :
            i # j => data.usuarios[i].usuario # data.usuarios[j].usuario

\* C37: an autenticarUsuario or autenticarAdmin call that returns a failure
\* leaves sesionesActivas as it was; in particular an autenticarAdmin rejected
\* with INSUFFICIENT_PERMISSIONS adds no entry.
C37_FailedLoginKeepsSessions ==
    [][(/\ nops' = nops + 1
        /\ last'.op \in {"autenticarUsuario", "autenticarAdmin"}
        /\ ~last'.result.success) =>
          sesionesActivas' = sesionesActivas]_vars

----------------------------------------------------------------------------
(* Claims about the endpoints, under SpecHttp *)

\* Some stored user resolves to a user whose role is the administrator's
AdminExists(doc) ==
    \E i \in 1..Len(doc.usuarios) :
        LET completo == UsuarioCompleto(doc, Num(doc.usuarios[i].id)) IN
        completo.status = "ok" /\ EsAdministrador(completo.rec)

TokenEndpoints == {"requireAdmin", "getCurrentUser", "logout"}

\* The sources of a request that carry a token, in the order of precedence
Sources(req) ==
    SelectSeq(<<"authorization", "xSessionId", "cookie">>,
              LAMBDA k : k \in DOMAIN req /\ req[k] # << >>)

\* The token a source carries: the one after 'Bearer ' for the header
Carried(req, k) == IF k = "authorization" THEN req[k][Len(req[k])] ELSE req[k]

C33_InternalErrorNotUnauthorized ==
    [][(/\ last'.op \in {"login", "loginAdmin"}
        /\ ~FalsyStr(last'.req, "usuario") /\ ~FalsyStr(last'.req, "password")
        /\ PasswordCheck(Loaded, last'.req.usuario, last'.req.password) = "pass") =>
          last'.status # "401"]_vars

----------------------------------------------------------------------------
(* Claims about the default administrator, under SpecBootstrap *)

\* C31: once crearUsuarioAdmin has returned successfully the store holds a
\* user with the administrator role.
C31_BootstrapLeavesAdmin ==
    [][(nops' = nops + 1 /\ last'.op = "crearUsuarioAdmin" /\ last'.result.status = "ok") =>
          AdminExists(data')]_vars

----------------------------------------------------------------------------
(* Claims about the first administrator, under SpecScenario *)

ScenarioUserData == [usuario |-> "admin", password |-> "admin123", rolId |-> 1, perfilId |-> 1]

\* createUsuario(ScenarioUserData) on the untouched store is followed by
\* autenticarAdmin("admin", "admin123").
ScenarioStep ==
    /\ nops = 1
    /\ last.op = "createUsuario"
    /\ last.userData = ScenarioUserData
    /\ last.result.status = "ok"
    /\ nops' = 2
    /\ last'.op = "autenticarAdmin"
    /\ last'.usuario = "admin"
    /\ last'.password = "admin123"

ScenarioSucceeds ==
    /\ last'.result.success
    /\ last'.result.usuario.rol.nombre = "admin"

\* C11: from a store whose roles are [{id 1, admin, [manage_users]}] and whose
\* usuarios are empty, createUsuario({admin, admin123, rolId 1, perfilId 1})
\* followed by autenticarAdmin(admin, admin123) succeeds and the returned
\* user's rol.nombre is admin.
C11_FirstAdminLogin == [][ScenarioStep => ScenarioSucceeds]_vars

\* C11, for a resolvable profile: the same, when the store also holds profile
\* 1 and the employee or patient it names; without them the login ends in
\* INTERNAL_ERROR.
C11_FirstAdminLoginResolved ==
    [][ScenarioStep =>
          LET perfil == GetById(disk0, "perfiles", Num(1)) IN
          IF perfil.status = "ok" /\ DetallesPerfil(disk0, perfil.rec).status = "ok"
          THEN ScenarioSucceeds
          ELSE last'.result.code = "INTERNAL_ERROR"]_vars

\* The first administrator was created on a store without users and has just
\* logged in through autenticarAdmin.
C11_FirstAdminLoggedIn ==
    /\ nops = 2
    /\ Len(disk0.usuarios) = 0
    /\ last.op = "autenticarAdmin"
    /\ last.usuario = "admin"
    /\ last.password = "admin123"
    /\ last.result.success
    /\ last.result.usuario.rol.nombre = "admin"
    /\ data.usuarios[1].usuario = "admin"

----------------------------------------------------------------------------
(* Claims about tokens and the session cache, under SpecSesion *)

\* C14: a token issued by crearSesion validates at every instant before its
\* expiry (issue time plus JwtExpiresIn), and the payload returned carries the
\* id, username, role name and permission list of the user it was issued for.
C14_TokenRoundTrip ==
    [][(last'.op = "autenticarUsuario" /\ nops' = nops + 1 /\ last'.result.success) =>
          \A t \in Instants :
              (t >= now' /\ t < now' + JwtExpiresIn) =>
                  LET claims == ValidarTokenResult(last'.result.token, t)
                      usuario == last'.result.usuario
                  IN  /\ claims # Null
                      /\ claims.id = usuario.id
                      /\ claims.usuario = usuario.usuario
                      /\ claims.rol = usuario.rol.nombre
                      /\ claims.permisos = usuario.rol.permisos]_vars

\* validarToken has returned the claims of mlopez for a token issued at an
\* earlier instant.
C14_ValidatedLater ==
    /\ last # NoRec
    /\ last.op = "validarToken"
    /\ last.ret # Null
    /\ last.ret.iat < now
    /\ last.ret.usuario = "mlopez"
    /\ last.ret.rol = "medico"
    /\ last.ret.permisos = <<"acceso_medico">>

BadSignature(token) == token.sig # Hmac(JwtSecret, token.payload)

PastExpiry(token, t) == t >= token.payload.exp

\* C15: validarToken returns null, without throwing, both for a token with a
\* bad signature and for a token past its expiry, and requireAdmin answers
\* both with 401: the caller cannot tell expired from tampered.
C15_InvalidTokenUniform ==
    [][(/\ last'.op \in {"validarToken", "requireAdmin"}
        /\ (BadSignature(last'.token) \/ PastExpiry(last'.token, now'))) =>
          IF last'.op = "validarToken" THEN last'.ret = Null ELSE last'.status = "401"]_vars

\* validarToken has returned null for a correctly signed token past its
\* expiry, as it does at this instant for the tampered one.
C15_ExpiredRejected ==
    /\ last # NoRec
    /\ last.op = "validarToken"
    /\ ~BadSignature(last.token)
    /\ PastExpiry(last.token, now)
    /\ last.ret = Null
    /\ ValidarTokenResult(TamperedToken, now) = last.ret
    /\ ValidarTokenResult(ForgedToken, now) = last.ret

\* C16: after cerrarSesion has returned true for a token, validarToken still
\* returns its payload at every instant before the token's expiry, and
\* requireAdmin still lets an administrator's token through.
C16_LogoutKeepsTokenValid ==
    [][(/\ last'.op \in {"validarToken", "requireAdmin"}
        /\ last'.token \in cerradas
        /\ ~PastExpiry(last'.token, now')) =>
          IF last'.op = "validarToken"
          THEN last'.ret = last'.token.payload
          ELSE LET usuario == UsuarioCompleto(Loaded, Num(last'.token.payload.id)) IN
               /\ last'.status # "401"
               /\ (usuario.status = "ok" /\ usuario.rec.rol.nombre = "admin") => last'.status = "next"]_vars

\* requireAdmin has let through a token that was closed at an earlier
\* instant and is absent from the cache.
C16_ClosedTokenAccepted ==
    /\ last # NoRec
    /\ last.op = "requireAdmin"
    /\ last.token \in cerradas
    /\ last.token \notin DOMAIN sesionesActivas
    /\ last.token.payload.iat < now
    /\ last.status = "next"

\* C17: for every token that validates, obtenerSesion returns an active entry
\* for that token and leaves it in sesionesActivas, whether or not the cache
\* held one before (never started tracking, or closed by cerrarSesion).
C17_GetRebuildsEntry ==
    [][(last'.op = "obtenerSesion" /\ ValidarTokenResult(last'.token, now') # Null) =>
          /\ last'.ret # Null
          /\ last'.ret.activa
          /\ last'.ret.id = last'.token
          /\ last'.ret.usuarioId = last'.token.payload.id
          /\ last'.ret.usuario = last'.token.payload.usuario
          /\ last'.ret.ultimaActividad = now'
          /\ last'.token \in DOMAIN sesionesActivas'
          /\ sesionesActivas'[last'.token] = last'.ret]_vars

\* obtenerSesion has rebuilt the entry of a token that cerrarSesion had
\* closed.
C17_RebuiltAfterLogout ==
    /\ last # NoRec
    /\ last.op = "obtenerSesion"
    /\ last.token \in cerradas
    /\ last.ret # Null
    /\ last.ret.activa
    /\ last.token \in DOMAIN sesionesActivas

\* C18: cerrarSesion returns true exactly when sesionesActivas held an entry
\* for the token before the call.
C18_RevokeReportsEntry ==
    [][last'.op = "cerrarSesion" =>
          (last'.ok <=> last'.token \in DOMAIN sesionesActivas)]_vars

\* C19: after cerrarSesion returns, sesionesActivas holds no entry for the
\* token, for every token that had one, also when the token's expiry has
\* passed since it was tracked.
C19_RevokeRemovesEntry ==
    [][(last'.op = "cerrarSesion" /\ last'.token \in DOMAIN sesionesActivas) =>
          last'.token \notin DOMAIN sesionesActivas']_vars

\* C20: limpiarSesionesExpiradas removes exactly the entries whose idle time
\* (now minus ultimaActividad) is strictly greater than the threshold and
\* leaves every other entry as it was; autenticarUsuario, validarToken,
\* obtenerSesion and obtenerUsuarioActual never remove an entry.
C20_PurgeExactlyIdle ==
    [][/\ last'.op = "limpiarSesionesExpiradas" =>
            /\ DOMAIN sesionesActivas' \subseteq DOMAIN sesionesActivas
            /\ \A k \in DOMAIN sesionesActivas :
                  IF now - sesionesActivas[k].ultimaActividad > last'.tiempoExpiracion
                  THEN k \notin DOMAIN sesionesActivas'
                  ELSE k \in DOMAIN sesionesActivas' /\ sesionesActivas'[k] = sesionesActivas[k]
       /\ last'.op \in {"autenticarUsuario", "validarToken", "obtenerSesion", "obtenerUsuarioActual",
                         "requireAdmin"} =>
            DOMAIN sesionesActivas \subseteq DOMAIN sesionesActivas']_vars

\* The default sweep has just run and kept an entry idle for exactly the
\* threshold.
C20_KeptAtThreshold ==
    /\ last # NoRec
    /\ last.op = "limpiarSesionesExpiradas"
    /\ last.tiempoExpiracion = DefaultTiempoExpiracion
    /\ \E k \in DOMAIN sesionesActivas :
          now - sesionesActivas[k].ultimaActividad = DefaultTiempoExpiracion

\* C40: every entry of sesionesActivas is active, is stored under the key
\* equal to its own id, and carries the user id, username, role and
\* permissions of the claims of that token.
C40_SessionEntriesMatchTokens ==
    \A token \in DOMAIN sesionesActivas :
        LET sesion == sesionesActivas[token]
            claims == token.payload
        IN  /\ sesion.activa
            /\ sesion.id = token
            /\ sesion.usuarioId = claims.id
            /\ sesion.usuario = claims.usuario
            /\ sesion.rol = (IF "rol" \in DOMAIN claims THEN claims.rol ELSE "undefined")
            /\ sesion.permisos = claims.permisos

\* The cache holds two entries: the one a login stored and one obtenerSesion
\* rebuilt from the claims of a token issued by an earlier run.
C40_StoredAndRebuilt ==
    /\ last # NoRec
    /\ last.op = "obtenerSesion"
    /\ last.token = PriorToken
    /\ PriorToken \in DOMAIN sesionesActivas
    /\ \E token \in DOMAIN sesionesActivas :
          token # PriorToken /\ sesionesActivas[token].permisos # << >>

----------------------------------------------------------------------------
(* Claims about the authorization middlewares, under SpecAutorizacion *)

Middlewares == {"requireAdmin", "requirePermission", "requirePaciente", "requireMultipleRoles"}

\* The user a token names, joined with its role, as the store holds them now
StoreUsuario(doc, token) == UsuarioCompleto(doc, Num(token.payload.id))

\* Whether the stored role gives what the middleware of this request asks for
StoreGrants(doc, request) ==
    LET rol == StoreUsuario(doc, request.token).rec.rol IN
    CASE request.op = "requireAdmin" -> rol.nombre = "admin"
      [] request.op = "requirePermission" ->
            \E i \in 1..Len(rol.permisos) : rol.permisos[i] = request.permiso
      [] request.op = "requirePaciente" -> rol.nombre = "paciente"
      [] OTHER -> rol.nombre \in request.roles

\* C21: requireAdmin, requirePermission, requirePaciente and
\* requireMultipleRoles let a request through only if the token validates and
\* the user resolved from the records the store holds now has the required
\* role or permission; whenever the stored role does not give it the request
\* is denied, whatever role the token carries.
C21_AuthorizationFromStore ==
    [][last'.op \in Middlewares =>
          /\ last'.status = "next" =>
                /\ ValidarTokenResult(last'.token, now') # Null
                /\ StoreUsuario(Loaded, last'.token).status = "ok"
                /\ StoreGrants(Loaded, last')
          /\ (\/ ValidarTokenResult(last'.token, now') = Null
              \/ StoreUsuario(Loaded, last'.token).status # "ok"
              \/ ~StoreGrants(Loaded, last')) => last'.status \in {"401", "403"}]_vars

\* requireAdmin has denied a valid token that carries the role admin: the
\* user was moved to another role after the token was issued.
C21_DeniedAfterRoleLoss ==
    /\ last # NoRec
    /\ last.op = "requireAdmin"
    /\ ValidarTokenResult(last.token, now) # Null
    /\ last.token.payload.rol = "admin"
    /\ StoreUsuario(data, last.token).status = "ok"
    /\ StoreUsuario(data, last.token).rec.rol.nombre # "admin"
    /\ last.status = "403"

\* C34: permission checks are plain membership: requirePermission(p) lets a
\* resolvable user through exactly when p is in the permission list of the
\* stored role, whatever the role's name, and requireAdmin exactly when the
\* role's name is admin.
C34_PermissionIsMembership ==
    [][(/\ last'.op \in {"requirePermission", "requireAdmin"}
        /\ ValidarTokenResult(last'.token, now') # Null
        /\ StoreUsuario(Loaded, last'.token).status = "ok") =>
          LET rol == StoreUsuario(Loaded, last'.token).rec.rol IN
          IF last'.op = "requirePermission"
          THEN (last'.status = "next") <=>
                  (last'.permiso \in {rol.permisos[i] : i \in 1..Len(rol.permisos)})
          ELSE (last'.status = "next") <=> (rol.nombre = "admin")]_vars

\* requirePermission has denied the administrator: the role admin no longer
\* lists the permission asked for.
C34_AdminWithoutPermission ==
    /\ last # NoRec
    /\ last.op = "requirePermission"
    /\ last.status = "403"
    /\ ValidarTokenResult(last.token, now) # Null
    /\ StoreUsuario(data, last.token).status = "ok"
    /\ StoreUsuario(data, last.token).rec.rol.nombre = "admin"
    /\ RequireAdminResult(data, last.token, now) = "next"

----------------------------------------------------------------------------
(* Claims about tokens of removed users, under SpecBaja *)

Guards == Middlewares \cup {"getCurrentUser"}

\* The user a token was issued to is still stored under the token's id
TokenUserStored(doc, token) ==
    \E i \in 1..Len(doc.usuarios) :
        doc.usuarios[i].id = token.payload.id /\ doc.usuarios[i].usuario = token.payload.usuario

\* C39: a token that validates but whose user has been deleted, or whose
\* user's role or profile link dangles, is never let through by requireAdmin,
\* requirePermission, requirePaciente, requireMultipleRoles or getCurrentUser.
C39_RemovedUserDenied ==
    [][(/\ last'.op \in Guards
        /\ ValidarTokenResult(last'.token, now') # Null
        /\ \/ ~TokenUserStored(Loaded, last'.token)
           \/ StoreUsuario(Loaded, last'.token).status # "ok") =>
          last'.status \in {"401", "403"}]_vars

----------------------------------------------------------------------------
(* Claims about the entities and the composed reads, under SpecEntidades *)

\* Whether a record names, under key, a record that tableName lacks
Dangling(doc, tableName, rec, key) ==
    key \in DOMAIN rec /\ GetByKey(doc, tableName, rec, key).status # "ok"

\* The link a profile asks getUsuarioCompleto to follow is missing: the
\* employee of a profile of kind empleado, the patient of one of kind paciente
DanglingDetalles(doc, perfil) ==
    \/ perfil.tipo = "empleado" /\ Dangling(doc, "empleados", perfil, "empleadoId")
    \/ perfil.tipo = "paciente" /\ Dangling(doc, "pacientes", perfil, "pacienteId")

C23_MissingPatientTolerated ==
    [][(/\ last'.op = "getTareasCompletas"
        /\ \A i \in 1..Len(Loaded.tareas) : ~Dangling(Loaded, "empleados", Loaded.tareas[i], "empleadoId")) =>
          /\ last'.tareas.status = "ok"
          /\ Len(last'.tareas.rows) = Len(Loaded.tareas)
          /\ \A i \in 1..Len(Loaded.tareas) :
                /\ last'.tareas.rows[i].id = Loaded.tareas[i].id
                /\ Dangling(Loaded, "pacientes", Loaded.tareas[i], "pacienteId")
                      => last'.tareas.rows[i].paciente = Null]_vars

\* C25: after any sequence of createPaciente and updatePaciente calls no two
\* stored patients have the same dni.
C25_UniqueDni ==
    data # NoData =>
        \A i, j \in 1..Len(data.pacientes) :
            i # j => data.pacientes[i].dni # data.pacientes[j].dni

\* C26: every profile stored through createPerfil has exactly one of
\* empleadoId and pacienteId, the one its tipo asks for.
C26_ProfileNamesOneByKind ==
    [][(nops' = nops + 1 /\ last'.op = "createPerfil" /\ last'.result.status = "ok") =>
          LET perfil == data'.perfiles[Len(data'.perfiles)] IN
          /\ perfil = last'.result.rec
          /\ ("empleadoId" \in DOMAIN perfil) # ("pacienteId" \in DOMAIN perfil)
          /\ perfil.tipo = "empleado" => "empleadoId" \in DOMAIN perfil
          /\ perfil.tipo = "paciente" => "pacienteId" \in DOMAIN perfil]_vars

\* The fields each creator requires
Required(op) ==
    CASE op = "createUsuario" -> {"usuario", "password", "rolId", "perfilId"}
      [] op = "createEmpleado" -> {"nombre", "puesto"}
      [] op = "createPaciente" -> {"nombre", "dni"}
      [] op = "createTarea" -> {"descripcion", "empleadoId", "estado", "fecha"}
      [] op = "createInsumo" -> {"nombre", "stock", "unidad"}
      [] op = "createRole" -> {"nombre", "permisos"}
      [] op = "createPerfil" -> {"tipo"}
      [] OTHER -> {}

\* C27: an entity-specific creator called without one of its required fields
\* fails with a validation error and changes nothing: no record is appended
\* to the in-memory document and db.json is not written.
C27_ValidationBeforeChange ==
    [][(nops' = nops + 1 /\ \E k \in Required(last'.op) : k \notin DOMAIN last'.userData) =>
          /\ last'.result.status = "Validation"
          /\ data' = data
          /\ disk' = disk]_vars

\* createInsumo without stock has been refused after an earlier call loaded
\* the document, and the supplies are those db.json started with.
C27_InsumoRefused ==
    /\ last # NoRec
    /\ last.op = "createInsumo"
    /\ "stock" \notin DOMAIN last.userData
    /\ last.result.status = "Validation"
    /\ data # NoData
    /\ data.insumos = disk0.insumos
    /\ disk.insumos = disk0.insumos

\* C35: getEstadisticas returns the record counts of users, employees,
\* patients, supplies and tasks, the numbers of tasks pendiente and
\* completada, and the number of supplies whose stock is strictly below 50;
\* pending plus completed never exceeds the task total.
C35_StatisticsAreCounts ==
    [][last'.op = "getEstadisticas" =>
          LET stats == last'.stats
              With(rows, k, v) == {i \in 1..Len(rows) : rows[i][k] = v}
          IN  /\ stats.totalUsuarios = Len(Loaded.usuarios)
              /\ stats.totalEmpleados = Len(Loaded.empleados)
              /\ stats.totalPacientes = Len(Loaded.pacientes)
              /\ stats.totalInsumos = Len(Loaded.insumos)
              /\ stats.totalTareas = Len(Loaded.tareas)
              /\ stats.tareasPendientes = Cardinality(With(Loaded.tareas, "estado", "pendiente"))
              /\ stats.tareasCompletadas = Cardinality(With(Loaded.tareas, "estado", "completada"))
              /\ stats.insumosConBajoStock =
                    Cardinality({i \in 1..Len(Loaded.insumos) : Loaded.insumos[i].stock < 50})
              /\ stats.tareasPendientes + stats.tareasCompletadas <= stats.totalTareas]_vars

\* getEstadisticas has counted a store holding a supply with a stock of
\* exactly 50, which is not among the low ones.
C35_StockAtThresholdNotLow ==
    /\ last # NoRec
    /\ last.op = "getEstadisticas"
    /\ \E i \in 1..Len(data.insumos) : data.insumos[i].stock = 50
    /\ last.stats.totalInsumos = Len(data.insumos)
    /\ last.stats.insumosConBajoStock = last.stats.totalInsumos - 1

\* C36: getTareasByEstado(s) returns exactly the stored tasks whose estado is
\* s, in store order, an empty sequence and no error when none matches, and
\* changes neither the in-memory document nor db.json.
C36_TasksByStatus ==
    [][last'.op = "getTareasByEstado" =>
          LET rows == last'.tareas.rows
              Matching == {i \in 1..Len(Loaded.tareas) : Loaded.tareas[i].estado = last'.estado}
          IN  /\ last'.tareas.status = "ok"
              /\ Len(rows) = Cardinality(Matching)
              /\ \E pos \in [1..Len(rows) -> Matching] :
                    /\ \A j \in 1..Len(rows) : rows[j] = Loaded.tareas[pos[j]]
                    /\ \A j, k \in 1..Len(rows) : j < k => pos[j] < pos[k]
              /\ data' = Loaded
              /\ disk' = disk]_vars

\* getTareasByEstado has returned the empty sequence: no stored task has the
\* estado asked for.
C36_NoMatchIsEmpty ==
    /\ last # NoRec
    /\ last.op = "getTareasByEstado"
    /\ Len(data.tareas) > 0
    /\ \A i \in 1..Len(data.tareas) : data.tareas[i].estado # last.estado
    /\ last.tareas = [status |-> "ok", rows |-> << >>]

=============================================================================
